---------------------------- MODULE Spec2Model ----------------------------
(***************************************************************************)
(* A model of the RAGFlow MCP server (src/mcp_app.py): the LRU cache with  *)
(* TTL, the argument normalizer of search_documents and the retrieval      *)
(* pipeline of RAGFlowConnector.                                           *)
(*                                                                         *)
(* Python values are modelled as follows.  None is the empty sequence and  *)
(* a present value v is <<v>> wherever the code has "X | None".  A Python  *)
(* str is a sequence of one-character strings.  An OrderedDict is the      *)
(* sequence of its items, oldest first.  time.time() is the variable now,  *)
(* in whole seconds, and never decreases.                                  *)
(***************************************************************************)
EXTENDS Integers, Sequences, FiniteSets, TLC

VARIABLES
    cache,      \* LRUCache.cache of the cache under test: items oldest first
    now,        \* the reading of time.time()
    ops,        \* the operations performed on the cache so far, with results
    arg,        \* the filter argument handed to the normalizer
    normalized, \* what the normalizer made of it
    npc,        \* "in" before the normalizer has run, "out" after
    session,    \* RAGFlowConnector.session: "none" or "open"
    dataset_cache,  \* RAGFlowConnector.dataset_cache.cache
    document_cache, \* RAGFlowConnector.document_cache.cache
    pc,         \* per invocation: where search_documents is suspended
    call,       \* per invocation: the arguments of search_documents
    loc,        \* per invocation: the locals of retrieval that are still read
    result,     \* per invocation: None, or Some(what retrieval returned)
    sent,       \* per invocation: the backend requests it has issued, in order
    http,       \* one call of _request: where it is, what was sent, its outcome
    made,       \* how many connectors and sessions the server has created
    uses        \* per invocation: the connector it runs on (0: none yet)

cacheVars == <<cache, ops>>

normVars == <<arg, normalized, npc>>

connVars == <<session, dataset_cache, document_cache>>

taskVars == <<pc, call, loc, result, sent>>

requestVars == <<http>>

serverVars == <<made, uses>>

vars == <<cache, now, ops, arg, normalized, npc, session, dataset_cache, document_cache, pc, call, loc, result, sent,
          http, made, uses>>

-----------------------------------------------------------------------------
(* Optional values.                                                        *)

None == <<>>

Some(v) == <<v>>

-----------------------------------------------------------------------------
(* LRUCache (src/mcp_app.py:42-76).                                        *)

\* LRUCache.__init__ default ttl_seconds, and the value both caches of the
\* connector are built with.
ttl_seconds == 300

\* LRUCache.max_size of the cache under test (the connector uses 32 and 128).
max_size == 2

\* "key in self.cache"
CacheHas(c, key) == \E i \in 1..Len(c) : c[i].key = key

CacheIndex(c, key) == CHOOSE i \in 1..Len(c) : c[i].key = key

\* "del self.cache[key]"
CacheDel(c, key) == SelectSeq(c, LAMBDA e : e.key # key)

\* "self.cache.move_to_end(key)"
MoveToEnd(c, key) == CacheDel(c, key) \o <<c[CacheIndex(c, key)]>>

\* A get that never expires an entry.
LRUGet_NoExpiry(c, key, t) ==
    IF ~CacheHas(c, key)
    THEN [cache |-> c, ret |-> None]
    ELSE [cache |-> MoveToEnd(c, key), ret |-> Some(c[CacheIndex(c, key)].value)]

\* A get whose hit does not move the entry to the end.
LRUGet_NoTouch(c, key, t) ==
    IF ~CacheHas(c, key)
    THEN [cache |-> c, ret |-> None]
    ELSE IF t > c[CacheIndex(c, key)].expiry
         THEN [cache |-> CacheDel(c, key), ret |-> None]
         ELSE [cache |-> c, ret |-> Some(c[CacheIndex(c, key)].value)]

\* A get that, finding its entry expired, sweeps every expired entry.
LRUGet_Sweep(c, key, t) ==
    IF ~CacheHas(c, key)
    THEN [cache |-> c, ret |-> None]
    ELSE IF t > c[CacheIndex(c, key)].expiry
         THEN [cache |-> SelectSeq(c, LAMBDA e : ~(t > e.expiry)), ret |-> None]
         ELSE [cache |-> MoveToEnd(c, key), ret |-> Some(c[CacheIndex(c, key)].value)]

\* LRUCache.get at time t: the cache afterwards and the value returned.
LRUGet(c, key, t) ==
    IF ~CacheHas(c, key)
    THEN [cache |-> c, ret |-> None]
    ELSE IF t > c[CacheIndex(c, key)].expiry
         THEN [cache |-> CacheDel(c, key), ret |-> None]
         ELSE [cache |-> MoveToEnd(c, key), ret |-> Some(c[CacheIndex(c, key)].value)]

\* "self.cache[key] = (value, expiry_time)": an existing key keeps its place.
CachePut(c, key, value, expiry) ==
    LET e == [key |-> key, value |-> value, expiry |-> expiry]
    IN  IF CacheHas(c, key) THEN [c EXCEPT ![CacheIndex(c, key)] = e] ELSE Append(c, e)

\* A set that never evicts.
LRUSet_NoEvict(c, key, value, t, max, ttl) ==
    LET c2 == MoveToEnd(CachePut(c, key, value, t + ttl), key)
    IN  [cache |-> c2, evicted |-> None]

\* A set that evicts the newest other entry instead of the oldest.
LRUSet_EvictNewest(c, key, value, t, max, ttl) ==
    LET c2 == MoveToEnd(CachePut(c, key, value, t + ttl), key)
    IN  IF Len(c2) > max
        THEN [cache |-> CacheDel(c2, c2[Len(c2) - 1].key), evicted |-> Some(c2[Len(c2) - 1].key)]
        ELSE [cache |-> c2, evicted |-> None]

\* LRUCache.set at time t: the cache afterwards and the key popitem removed.
LRUSet(c, key, value, t, max, ttl) ==
    LET c2 == MoveToEnd(CachePut(c, key, value, t + ttl), key)
    IN  IF Len(c2) > max
        THEN [cache |-> Tail(c2), evicted |-> Some(Head(c2).key)]
        ELSE [cache |-> c2, evicted |-> None]

\* LRUCache.clear
LRUClear(c) == <<>>

-----------------------------------------------------------------------------
(* Python values as the tool arguments carry them.  A value is a record    *)
(* tagged by its type: None, a bool, an int, a str (a sequence of          *)
(* characters) or a list of values.                                        *)

PyNone == [t |-> "none"]

PyBool(b) == [t |-> "bool", b |-> b]

PyInt(n) == [t |-> "int", n |-> n]

PyStr(s) == [t |-> "str", s |-> s]

PyList(items) == [t |-> "list", items |-> items]

\* bool(v): None, False, 0, "" and [] are falsy.
Truthy(v) ==
    CASE v.t = "none" -> FALSE
      [] v.t = "bool" -> v.b
      [] v.t = "int"  -> v.n # 0
      [] v.t = "str"  -> v.s # <<>>
      [] v.t = "list" -> v.items # <<>>

Whitespace == {" ", "\t", "\n"}

RECURSIVE LStrip(_)
LStrip(s) == IF s # <<>> /\ Head(s) \in Whitespace THEN LStrip(Tail(s)) ELSE s

RECURSIVE RStrip(_)
RStrip(s) ==
    IF s # <<>> /\ s[Len(s)] \in Whitespace THEN RStrip(SubSeq(s, 1, Len(s) - 1)) ELSE s

\* A strip that trims the left end only.
Strip_LeftOnly(s) == LStrip(s)

\* str.strip()
Strip(s) == RStrip(LStrip(s))

UpperCase == <<"A", "B", "C", "D", "E", "F", "G", "H", "I", "J", "K", "L", "M", "N", "O", "P", "Q", "R", "S", "T", "U", "V", "W", "X", "Y", "Z">>

LowerCase == <<"a", "b", "c", "d", "e", "f", "g", "h", "i", "j", "k", "l", "m", "n", "o", "p", "q", "r", "s", "t", "u", "v", "w", "x", "y", "z">>

LowerChar(ch) ==
    IF \E i \in 1..Len(UpperCase) : UpperCase[i] = ch
    THEN LowerCase[CHOOSE i \in 1..Len(UpperCase) : UpperCase[i] = ch]
    ELSE ch

\* str.lower()
Lower(s) == [i \in 1..Len(s) |-> LowerChar(s[i])]

Digits == <<"0", "1", "2", "3", "4", "5", "6", "7", "8", "9">>

RECURSIVE NatStr(_)
NatStr(n) == IF n < 10 THEN <<Digits[n + 1]>> ELSE NatStr(n \div 10) \o <<Digits[(n % 10) + 1]>>

\* str(n) of an int
IntStr(n) == IF n < 0 THEN <<"-">> \o NatStr(0 - n) ELSE NatStr(n)

RECURSIVE StrOf(_)
RECURSIVE ReprOf(_)
RECURSIVE ReprJoin(_)
\* repr of the items of a list, joined by ", "
ReprJoin(items) ==
    IF items = <<>> THEN <<>>
    ELSE IF Len(items) = 1 THEN ReprOf(items[1])
    ELSE ReprOf(items[1]) \o <<",", " ">> \o ReprJoin(Tail(items))

\* repr(v): a str in quotes, anything else as str(v)
ReprOf(v) == IF v.t = "str" THEN <<"'">> \o v.s \o <<"'">> ELSE StrOf(v)

\* str(v)
StrOf(v) ==
    CASE v.t = "none" -> <<"N", "o", "n", "e">>
      [] v.t = "bool" -> IF v.b THEN <<"T", "r", "u", "e">> ELSE <<"F", "a", "l", "s", "e">>
      [] v.t = "int"  -> IntStr(v.n)
      [] v.t = "str"  -> v.s
      [] v.t = "list" -> <<"[">> \o ReprJoin(v.items) \o <<"]">>

-----------------------------------------------------------------------------
(* The argument normalizer of search_documents (src/mcp_app.py:662-694),   *)
(* the same code for dataset_ids and for document_ids.  The result is None *)
(* or Some(list of str).                                                   *)

\* The literal forms the last branch treats as "no value".
NullForms == {<<"n", "o", "n", "e">>, <<"n", "u", "l", "l">>, <<"[", "]">>, <<>>}

\* "[str(d).strip() for d in ids if d and str(d).strip()]"
RECURSIVE NormalizeItems(_)
NormalizeItems(items) ==
    IF items = <<>> THEN <<>>
    ELSE LET d == Head(items)
             rest == NormalizeItems(Tail(items))
         IN  IF Truthy(d) /\ Strip(StrOf(d)) # <<>> THEN <<Strip(StrOf(d))>> \o rest ELSE rest

\* A normalizer that keeps list elements without trimming them.
Normalize_NoTrim(v) ==
    IF ~Truthy(v) THEN None
    ELSE IF v.t = "str"
         THEN IF Strip(v.s) # <<>> THEN Some(<<Strip(v.s)>>) ELSE None
    ELSE IF v.t = "list"
         THEN Some(SelectSeq([i \in 1..Len(v.items) |-> StrOf(v.items[i])], LAMBDA x : Strip(x) # <<>>))
    ELSE LET str_val == Strip(StrOf(v))
         IN  IF str_val # <<>> /\ Lower(str_val) \notin NullForms THEN Some(<<str_val>>) ELSE None

Normalize(v) ==
    IF ~Truthy(v) THEN None
    ELSE IF v.t = "str"
         THEN IF Strip(v.s) # <<>> THEN Some(<<Strip(v.s)>>) ELSE None
    ELSE IF v.t = "list"
         THEN Some(NormalizeItems(v.items))
    ELSE LET str_val == Strip(StrOf(v))
         IN  IF str_val # <<>> /\ Lower(str_val) \notin NullForms THEN Some(<<str_val>>) ELSE None

-----------------------------------------------------------------------------
(* The server: RAGFlowMCPServer with its connector and the invocations of  *)
(* search_documents, each suspended at one of its network calls.           *)

Tasks == {"t1", "t2"}

\* The arguments of an invocation that has not been made.
NoCall == [dataset_ids |-> PyNone, document_ids |-> PyNone, page |-> 0, page_size |-> 0, force_refresh |-> FALSE]

\* The locals of retrieval before it runs.
NoLoc ==
    [dataset_ids |-> None, document_ids |-> None, page |-> 0, page_size |-> 0,
     list_response |-> None, all_datasets |-> None, payload |-> None, post_result |-> None, dataset_count |-> 0,
     dataset_failed |-> {}, documents_failed |-> {},
     data |-> None, chunks |-> <<>>, i |-> 0, cur |-> None, enriched |-> <<>>, answered |-> 0,
     cleared |-> FALSE, overtaken |-> FALSE, late |-> 0,
     dataset_lookups |-> {}, documents_lookups |-> {}]

\* No call of _request is under way.
NoRequest == [pc |-> "idle", url |-> None, wire |-> 0, response |-> None, outcome |-> None]

\* RAGFlowMCPServer.__init__: no connector yet, nothing invoked.
ServerIdle ==
    /\ session = "none"
    /\ dataset_cache = <<>>
    /\ document_cache = <<>>
    /\ pc = [t \in Tasks |-> "idle"]
    /\ call = [t \in Tasks |-> NoCall]
    /\ loc = [t \in Tasks |-> NoLoc]
    /\ result = [t \in Tasks |-> None]
    /\ sent = [t \in Tasks |-> <<>>]
    /\ http = NoRequest
    /\ made = [connectors |-> 0, sessions |-> 0]
    /\ uses = [t \in Tasks |-> 0]

-----------------------------------------------------------------------------
(* The cache under test: any sequence of get, set and clear, at any clock  *)
(* readings.                                                               *)

Keys == {"A", "B", "C", "D"}

Values == {"v1", "v2"}

\* The clock advances by a second, by exactly the TTL or by one second more.
TickSteps == {1, ttl_seconds, ttl_seconds + 1}

\* The number of operations (clock advances included) of one run.
MaxOps == 4

OpRec(op, key, val, ret, evicted) ==
    [op |-> op, key |-> key, val |-> val, ret |-> ret, evicted |-> evicted, at |-> now]

CacheIdle ==
    /\ cache = <<>>
    /\ ops = <<>>

NormIdle ==
    /\ arg = [t |-> "none"]
    /\ normalized = <<>>
    /\ npc = "off"

InitCache ==
    /\ CacheIdle
    /\ now = 0
    /\ NormIdle
    /\ ServerIdle

Get(key) ==
    /\ Len(ops) < MaxOps
    /\ LET r == LRUGet(cache, key, now)
       IN  /\ cache' = r.cache
           /\ ops' = Append(ops, OpRec("get", key, None, r.ret, None))
    /\ UNCHANGED <<now, normVars, connVars, taskVars, requestVars, serverVars>>

Set(key, value) ==
    /\ Len(ops) < MaxOps
    /\ LET r == LRUSet(cache, key, value, now, max_size, ttl_seconds)
       IN  /\ cache' = r.cache
           /\ ops' = Append(ops, OpRec("set", key, Some(value), None, r.evicted))
    /\ UNCHANGED <<now, normVars, connVars, taskVars, requestVars, serverVars>>

Clear ==
    /\ Len(ops) < MaxOps
    /\ cache' = LRUClear(cache)
    /\ ops' = Append(ops, OpRec("clear", "-", None, None, None))
    /\ UNCHANGED <<now, normVars, connVars, taskVars, requestVars, serverVars>>

Tick(d) ==
    /\ Len(ops) < MaxOps
    /\ now' = now + d
    /\ ops' = Append(ops, OpRec("tick", "-", None, None, None))
    /\ UNCHANGED <<cache, normVars, connVars, taskVars, requestVars, serverVars>>

NextCache ==
    \/ \E key \in Keys : Get(key)
    \/ \E key \in Keys, value \in Values : Set(key, value)
    \/ Clear
    \/ \E d \in TickSteps : Tick(d)

SpecCache == InitCache /\ [][NextCache]_vars

-----------------------------------------------------------------------------
(* The normalizer on its own: one argument of any shape, normalized once.  *)

SeqsUpTo(S, n) == UNION {[1..m -> S] : m \in 0..n}

\* Identifiers and other strings, as sequences of characters.
StrD1 == <<"d", "1">>

StrD2 == <<"d", "2">>

StrD1Padded == <<" ", "d", "1", " ">>

StrNull == <<"n", "u", "l", "l">>

StrNullUpper == <<"N", "U", "L", "L">>

StrNone == <<"n", "o", "n", "e">>

StrBrackets == <<"[", "]">>

\* The longest list argument.
MaxListLen == 2

\* What a list argument may hold.
ElemVals ==
    {PyNone, PyInt(0), PyInt(7), PyBool(TRUE),
     PyStr(<<>>), PyStr(<<" ">>), PyStr(StrD1), PyStr(StrD2), PyStr(StrD1Padded),
     PyStr(StrNull), PyList(<<>>), PyList(<<PyStr(StrD1)>>)}

\* What an argument that is not a list may be.
ScalarVals ==
    {PyNone, PyBool(FALSE), PyBool(TRUE), PyInt(0), PyInt(5),
     PyStr(<<>>), PyStr(<<" ">>), PyStr(<<"\t", " ">>), PyStr(StrD1), PyStr(StrD1Padded),
     PyStr(StrNull), PyStr(StrNullUpper), PyStr(StrNone), PyStr(StrBrackets)}

NormInputs == ScalarVals \cup {PyList(items) : items \in SeqsUpTo(ElemVals, MaxListLen)}

InitNorm ==
    /\ CacheIdle
    /\ now = 0
    /\ ServerIdle
    /\ arg \in NormInputs
    /\ normalized = None
    /\ npc = "in"

NormalizeArg ==
    /\ npc = "in"
    /\ normalized' = Normalize(arg)
    /\ npc' = "out"
    /\ UNCHANGED <<arg, now, cacheVars, connVars, taskVars, requestVars, serverVars>>

NextNorm == NormalizeArg

SpecNorm == InitNorm /\ [][NextNorm]_vars

-----------------------------------------------------------------------------
(* What the backend answers.  The outcome of _request is a raised          *)
(* RuntimeError ("raise"), a decoded JSON value that is not an object      *)
(* ("nondict"), or a JSON object ("dict") of which the code reads the keys *)
(* code, message and data; an absent key is None.  The value of data is    *)
(* tagged by its JSON type.                                                *)

Raise == [k |-> "raise"]

NonDict == [k |-> "nondict"]

Envelope(code, message, data) == [k |-> "dict", code |-> code, message |-> message, data |-> data]

JNull == [d |-> "null"]

JList(items) == [d |-> "list", items |-> items]

JDict(items) == [d |-> "dict", items |-> items]

JStr(s) == [d |-> "str", s |-> s]

JInt(n) == [d |-> "int", n |-> n]

\* A dataset record of a listing; id and name are None when the key is absent.
DatasetRec(id, name) == [r |-> "dict", id |-> id, name |-> name]

\* An item of a listing that is not an object.
NonDictItem == [r |-> "nondict"]

\* The connector's caches (RAGFlowConnector.__init__).
DatasetCacheSize == 32

DocumentCacheSize == 128

\* A list_datasets that returns the data of an envelope whatever its code.
ListDatasetsResult_AnyCode(resp) ==
    IF resp.k # "dict" THEN JList(<<>>)
    ELSE IF resp.data = None THEN JList(<<>>)
    ELSE LET datasets == resp.data[1]
         IN  CASE datasets.d = "null" -> JList(<<>>)
               [] datasets.d = "dict" -> JList(datasets.items)
               [] datasets.d = "list" -> datasets
               [] datasets.d = "str"  -> datasets
               [] datasets.d = "int"  -> JList(<<>>)

\* list_datasets: what it returns for an outcome of its request.  Every
\* failure gives the empty list; data that is a str is returned as it is.
ListDatasetsResult(resp) ==
    IF resp.k # "dict" THEN JList(<<>>)
    ELSE IF resp.code # Some(0) THEN JList(<<>>)
    ELSE IF resp.data = None THEN JList(<<>>)
    ELSE LET datasets == resp.data[1]
         IN  CASE datasets.d = "null" -> JList(<<>>)
               [] datasets.d = "dict" -> JList(datasets.items)
               [] datasets.d = "list" -> datasets
               [] datasets.d = "str"  -> datasets
               [] datasets.d = "int"  -> JList(<<>>)

\* "not all_datasets"
NoDatasets(all) == IF all.d = "str" THEN all.s = <<>> ELSE all.items = <<>>

\* "[ds.get("id") for ds in all_datasets if ds.get("id")]" raises when an
\* element has no get: the characters of a str, an item that is no object.
ListingRaises(all) == all.d = "str" \/ \E i \in 1..Len(all.items) : all.items[i].r # "dict"

RECURSIVE ListedIds(_)
ListedIds(items) ==
    IF items = <<>> THEN <<>>
    ELSE LET ds == Head(items)
         IN  IF ds.id # None /\ Truthy(ds.id[1])
             THEN <<ds.id[1]>> \o ListedIds(Tail(items))
             ELSE ListedIds(Tail(items))

\* The list search_documents hands to retrieval: the normalized strs.
ToPy(n) == IF n = None THEN None ELSE Some([i \in 1..Len(n[1]) |-> PyStr(n[1][i])])

\* A filter that keeps only the first valid identifier.
RetrievalFilter_FirstOnly(ids) ==
    IF ids = None \/ ids[1] = <<>> THEN None
    ELSE LET valid_ids == SelectSeq(ids[1], LAMBDA d : Truthy(d) /\ d.t = "str" /\ Strip(d.s) # <<>>)
         IN  IF valid_ids # <<>> THEN Some(<<valid_ids[1]>>) ELSE None

\* retrieval, "Filter dataset_ids: only keep non-empty strings" (and the
\* same for document_ids): None unless a valid identifier remains.
RetrievalFilter(ids) ==
    IF ids = None \/ ids[1] = <<>> THEN None
    ELSE LET valid_ids == SelectSeq(ids[1], LAMBDA d : Truthy(d) /\ d.t = "str" /\ Strip(d.s) # <<>>)
         IN  IF valid_ids # <<>> THEN Some(valid_ids) ELSE None

\* The retrieval payload.  question, similarity_threshold,
\* vector_similarity_weight, keyword, top_k and rerank_id are copied from
\* the arguments and decide nothing; they are left out.
Payload(l, valid_dataset_ids, valid_document_ids) ==
    [dataset_ids |-> valid_dataset_ids, document_ids |-> valid_document_ids,
     page |-> l.page, page_size |-> l.page_size]

\* The dictionaries retrieval returns, named by the return statement.
ZeroPagination(l) == Some([page |-> l.page, page_size |-> l.page_size, total_chunks |-> 0, total_pages |-> 0])

NoDatasetsResult ==
    [via |-> "no_datasets", chunks |-> <<>>, error |-> Some("No datasets available in RAGFlow backend"),
     message |-> None, pagination |-> None]

\* An error result that drops the backend's message.
BackendErrorResult_NoMessage(l, error_msg) ==
    [via |-> "backend_error", chunks |-> <<>>, error |-> Some("Unknown error from RAGFlow"),
     message |-> None, pagination |-> ZeroPagination(l)]

BackendErrorResult(l, error_msg) ==
    [via |-> "backend_error", chunks |-> <<>>, error |-> Some(error_msg),
     message |-> None, pagination |-> ZeroPagination(l)]

\* A result for no chunks that reports them as an error.
NoChunksResult_AsError(l) ==
    [via |-> "no_chunks", chunks |-> <<>>, error |-> Some("No relevant documents found for your question."),
     message |-> None, pagination |-> ZeroPagination(l)]

NoChunksResult(l) ==
    [via |-> "no_chunks", chunks |-> <<>>, error |-> None,
     message |-> Some("No relevant documents found for your question."), pagination |-> ZeroPagination(l)]

ExceptionResult(l) ==
    [via |-> "exception", chunks |-> <<>>, error |-> Some("Retrieval failed"),
     message |-> None, pagination |-> ZeroPagination(l)]

DoneResult(enriched_chunks, pagination) ==
    [via |-> "done", chunks |-> enriched_chunks, error |-> None,
     message |-> None, pagination |-> Some(pagination)]

\* A request as the invocation issues it: the endpoint and the id asked for.
Req(kind, id) == [kind |-> kind, id |-> id]

\* What one step of an invocation leaves behind: where it is suspended
\* next, its locals, its result, the requests it issued and the caches.
StepRec(p, l, r, reqs, dc, xc) ==
    [pc |-> p, loc |-> l, result |-> r, reqs |-> reqs, dataset_cache |-> dc, document_cache |-> xc]

\* A retrieval that leaves the caches alone on force_refresh.
IssuePost_NoRefresh(l, dc, xc, force_refresh, valid_dataset_ids) ==
    LET valid_document_ids == RetrievalFilter(l.document_ids)
        payload == Payload(l, valid_dataset_ids, valid_document_ids)
        l2 == [l EXCEPT !.dataset_ids = None, !.document_ids = None,
                        !.payload = Some(payload), !.dataset_count = Len(valid_dataset_ids)]
    IN  StepRec("posting", l2, None, <<Req("retrieval", None)>>, dc, xc)

\* retrieval from "Filter document_ids similarly" to the POST: the
\* document filter, the force_refresh clears, the payload and the request.
IssuePost(l, dc, xc, force_refresh, valid_dataset_ids) ==
    LET valid_document_ids == RetrievalFilter(l.document_ids)
        payload == Payload(l, valid_dataset_ids, valid_document_ids)
        l2 == [l EXCEPT !.dataset_ids = None, !.document_ids = None,
                        !.payload = Some(payload), !.dataset_count = Len(valid_dataset_ids),
                        !.cleared = force_refresh]
    IN  StepRec("posting", l2, None, <<Req("retrieval", None)>>,
                IF force_refresh THEN LRUClear(dc) ELSE dc,
                IF force_refresh THEN LRUClear(xc) ELSE xc)

\* A scope resolution that lists the datasets whatever the caller supplied.
ResolveScope_AlwaysList(l, dc, xc, force_refresh) ==
    StepRec("listing", l, None, <<Req("list", None)>>, dc, xc)

\* A scope resolution that issues the POST together with the listing.
ResolveScope_PostWhileListing(l, dc, xc, force_refresh) ==
    LET valid_dataset_ids == RetrievalFilter(l.dataset_ids)
    IN  IF valid_dataset_ids = None
        THEN StepRec("listing", l, None, <<Req("list", None), Req("retrieval", None)>>, dc, xc)
        ELSE IssuePost(l, dc, xc, force_refresh, valid_dataset_ids[1])

\* retrieval up to its first network call: with valid dataset ids the POST,
\* without them the dataset listing.
ResolveScope(l, dc, xc, force_refresh) ==
    LET valid_dataset_ids == RetrievalFilter(l.dataset_ids)
    IN  IF valid_dataset_ids = None
        THEN StepRec("listing", l, None, <<Req("list", None)>>, dc, xc)
        ELSE IssuePost(l, dc, xc, force_refresh, valid_dataset_ids[1])

\* A listing handler that goes on to the POST although nothing was listed.
AfterList_NoCheck(l, dc, xc, force_refresh, resp) ==
    LET all_datasets == ListDatasetsResult(resp)
        l1 == [l EXCEPT !.all_datasets = Some(all_datasets), !.list_response = Some(resp)]
    IN  IF ~NoDatasets(all_datasets) /\ ListingRaises(all_datasets)
        THEN StepRec("done", l1, Some(ExceptionResult(l1)), <<>>, dc, xc)
        ELSE IssuePost(l1, dc, xc, force_refresh,
                       IF NoDatasets(all_datasets) THEN <<>> ELSE ListedIds(all_datasets.items))

\* retrieval when the dataset listing has answered.
AfterList(l, dc, xc, force_refresh, resp) ==
    LET all_datasets == ListDatasetsResult(resp)
        l1 == [l EXCEPT !.all_datasets = Some(all_datasets), !.list_response = Some(resp)]
    IN  IF NoDatasets(all_datasets)
        THEN StepRec("done", l1, Some(NoDatasetsResult), <<>>, dc, xc)
        ELSE IF ListingRaises(all_datasets)
        THEN StepRec("done", l1, Some(ExceptionResult(l1)), <<>>, dc, xc)
        ELSE IssuePost(l1, dc, xc, force_refresh, ListedIds(all_datasets.items))

-----------------------------------------------------------------------------
(* Enrichment: get_dataset_info, get_documents and the loop of retrieval.  *)

\* The data of a document listing: docs is None when the key is absent.
JDocs(docs) == [d |-> "dict", docs |-> docs]

\* The data of a retrieval response; each key is None when absent.
JRetrieval(chunks, total, page, page_size) ==
    [d |-> "dict", chunks |-> chunks, total |-> total, page |-> page, page_size |-> page_size]

\* A document record of a listing.
DocRec(id, name) == [r |-> "dict", id |-> id, name |-> name]

\* A chunk of a retrieval response; cid stands for its content.
Chunk(cid, dataset_id, kb_id, document_id) ==
    [r |-> "dict", cid |-> cid, dataset_id |-> dataset_id, kb_id |-> kb_id, document_id |-> document_id]

\* An optional str that is present and not empty.
TruthyOpt(o) == o # None /\ o[1] # <<>>

\* "chunk.get("dataset_id") or chunk.get("kb_id")"
ChunkDatasetId(chunk) == IF TruthyOpt(chunk.dataset_id) THEN chunk.dataset_id ELSE chunk.kb_id

\* "enriched_chunk = dict(chunk)"
NewEnriched(chunk) ==
    [chunk |-> chunk, dataset_name |-> None, document_name |-> None, document_metadata |-> None]

\* get_dataset_info after its request: the dataset_info it builds and
\* caches, or None on any failure.  description is copied like name.
DatasetInfoOf(resp) ==
    IF resp.k # "dict" THEN None
    ELSE IF resp.code # Some(0) THEN None
    ELSE IF resp.data = None THEN None
    ELSE LET datasets == resp.data[1]
         IN  IF datasets.d = "list" /\ datasets.items # <<>> /\ datasets.items[1].r = "dict"
             THEN Some([id |-> datasets.items[1].id,
                        name |-> IF datasets.items[1].name = None THEN "Unknown"
                                 ELSE datasets.items[1].name[1]])
             ELSE None

\* "docs_dict[doc_id] = doc_meta": a known id keeps its place in the dict.
DictPut(docs, meta) ==
    IF \E i \in 1..Len(docs) : docs[i].id = meta.id
    THEN [i \in 1..Len(docs) |-> IF docs[i].id = meta.id THEN meta ELSE docs[i]]
    ELSE Append(docs, meta)

RECURSIVE BuildDocs(_, _)
BuildDocs(docs_list, docs_dict) ==
    IF docs_list = <<>> THEN docs_dict
    ELSE LET doc == Head(docs_list)
         IN  IF ~TruthyOpt(doc.id) THEN BuildDocs(Tail(docs_list), docs_dict)
             ELSE BuildDocs(Tail(docs_list),
                            DictPut(docs_dict, [id |-> doc.id[1],
                                                name |-> IF doc.name = None THEN "" ELSE doc.name[1]]))

\* get_documents after its request: ok when it reached document_cache.set,
\* and the mapping it returns (the documents in insertion order).
DocumentsOf(resp) ==
    IF resp.k # "dict" THEN [ok |-> FALSE, docs |-> <<>>]
    ELSE IF resp.code # Some(0) THEN [ok |-> FALSE, docs |-> <<>>]
    ELSE IF resp.data = None THEN [ok |-> TRUE, docs |-> <<>>]
    ELSE LET data == resp.data[1]
         IN  IF data.d # "dict" THEN [ok |-> FALSE, docs |-> <<>>]
             ELSE IF data.docs = None THEN [ok |-> TRUE, docs |-> <<>>]
             ELSE IF \E i \in 1..Len(data.docs[1]) : data.docs[1][i].r # "dict"
                  THEN [ok |-> FALSE, docs |-> <<>>]
                  ELSE [ok |-> TRUE, docs |-> BuildDocs(data.docs[1], <<>>)]

\* "enriched_chunk["dataset_name"] = dataset_info.get("name", "Unknown")"
WithDatasetName(l, dataset_info) ==
    [l EXCEPT !.cur = Some([@[1] EXCEPT !.dataset_name = Some(dataset_info.name)])]

\* "if doc_id in docs": the document's name and its whole record.
WithDocument(l, docs) ==
    LET doc_id == l.chunks[l.i].document_id[1]
    IN  IF \E j \in 1..Len(docs) : docs[j].id = doc_id
        THEN LET meta == docs[CHOOSE j \in 1..Len(docs) : docs[j].id = doc_id]
             IN  [l EXCEPT !.cur = Some([@[1] EXCEPT !.document_name = Some(meta.name),
                                                     !.document_metadata = Some(meta)])]
        ELSE l

\* A loop that puts each enriched chunk in front of the earlier ones.
NextChunk_Prepend(l) ==
    [l EXCEPT !.enriched = <<l.cur[1]>> \o @,
              !.i = @ + 1,
              !.cur = IF l.i + 1 <= Len(l.chunks) /\ l.chunks[l.i + 1].r = "dict"
                      THEN Some(NewEnriched(l.chunks[l.i + 1])) ELSE None]

\* "enriched_chunks.append(enriched_chunk)" and the next turn of the loop.
NextChunk(l) ==
    [l EXCEPT !.enriched = Append(@, l.cur[1]),
              !.i = @ + 1,
              !.cur = IF l.i + 1 <= Len(l.chunks) /\ l.chunks[l.i + 1].r = "dict"
                      THEN Some(NewEnriched(l.chunks[l.i + 1])) ELSE None]

\* A response builder whose division by zero escapes retrieval: the
\* invocation ends without a result.
Finish_Unguarded(l, dc, xc) ==
    StepRec("done", l,
            IF l.page_size = 0 THEN None
            ELSE Some(DoneResult(l.enriched,
                      [page |-> l.page, page_size |-> l.page_size, total_chunks |-> Len(l.chunks),
                       total_pages |-> (Len(l.chunks) + l.page_size - 1) \div l.page_size])),
            <<>>, dc, xc)

\* A response builder that never returns.
Finish_Hangs(l, dc, xc) == StepRec("building", l, None, <<>>, dc, xc)

\* "Build structured response": the division raises when page_size is 0.
Finish(l, dc, xc) ==
    LET total_chunks == IF l.data[1].total = None THEN Len(l.chunks) ELSE l.data[1].total[1]
    IN  IF l.page_size = 0
        THEN StepRec("done", l, Some(ExceptionResult(l)), <<>>, dc, xc)
        ELSE StepRec("done", l,
                     Some(DoneResult(l.enriched,
                          [page |-> IF l.data[1].page = None THEN l.page ELSE l.data[1].page[1],
                           page_size |-> IF l.data[1].page_size = None THEN l.page_size
                                         ELSE l.data[1].page_size[1],
                           total_chunks |-> total_chunks,
                           total_pages |-> (total_chunks + l.page_size - 1) \div l.page_size])),
                     <<>>, dc, xc)

\* The enrichment loop from chunk l.i on, at the dataset lookup ("ds") or
\* at the document lookup ("doc"), up to its next network call or its end.
\* Both lookups read their cache first; "if cached" takes an empty document
\* mapping for a miss.
RECURSIVE EnrichFrom(_, _, _, _, _)
EnrichFrom(l, dc, xc, t, stage) ==
    IF l.i > Len(l.chunks) THEN Finish(l, dc, xc)
    ELSE IF l.chunks[l.i].r # "dict" THEN StepRec("done", l, Some(ExceptionResult(l)), <<>>, dc, xc)
    ELSE LET chunk == l.chunks[l.i]
             dataset_id == ChunkDatasetId(chunk)
         IN  IF stage = "ds"
             THEN IF ~TruthyOpt(dataset_id) THEN EnrichFrom(l, dc, xc, t, "doc")
                  ELSE LET cached == LRUGet(dc, dataset_id[1], t)
                       IN  IF cached.ret # None
                           THEN EnrichFrom(WithDatasetName(l, cached.ret[1]), cached.cache, xc, t, "doc")
                           ELSE StepRec("dataset", l, None, <<Req("dataset", dataset_id)>>, cached.cache, xc)
             ELSE IF TruthyOpt(dataset_id) /\ TruthyOpt(chunk.document_id)
                  THEN LET cached == LRUGet(xc, dataset_id[1], t)
                       IN  IF cached.ret # None /\ cached.ret[1] # <<>>
                           THEN EnrichFrom(NextChunk(WithDocument(l, cached.ret[1])), dc, cached.cache, t, "ds")
                           ELSE StepRec("documents", l, None, <<Req("documents", dataset_id)>>, dc, cached.cache)
                  ELSE EnrichFrom(NextChunk(l), dc, xc, t, "ds")

\* What retrieval reads of the outcome of its POST before the chunks: whether
\* it is an object, its code and message, and the JSON type of its data.
PostOutcome(resp) ==
    IF resp.k # "dict" THEN [k |-> resp.k]
    ELSE [k |-> "dict", code |-> resp.code, message |-> resp.message,
          d |-> IF resp.data = None THEN "absent" ELSE resp.data[1].d]

\* retrieval when the POST has answered.  The payload and the listing are
\* not read again.
AfterPost(l, dc, xc, t, resp) ==
    LET l0 == [l EXCEPT !.payload = None, !.all_datasets = None, !.list_response = None, !.post_result = Some(PostOutcome(resp))]
    IN  IF resp.k # "dict" THEN StepRec("done", l0, Some(ExceptionResult(l0)), <<>>, dc, xc)
        ELSE IF resp.code # Some(0)
        THEN StepRec("done", l0,
                     Some(BackendErrorResult(l0, IF resp.message = None THEN "Unknown error from RAGFlow"
                                                 ELSE resp.message[1])), <<>>, dc, xc)
        ELSE IF resp.data = None THEN StepRec("done", l0, Some(NoChunksResult(l0)), <<>>, dc, xc)
        ELSE IF resp.data[1].d # "dict" THEN StepRec("done", l0, Some(ExceptionResult(l0)), <<>>, dc, xc)
        ELSE LET data == resp.data[1]
                 chunks == IF data.chunks = None THEN <<>> ELSE data.chunks[1]
             IN  IF chunks = <<>> THEN StepRec("done", l0, Some(NoChunksResult(l0)), <<>>, dc, xc)
                 ELSE EnrichFrom([l0 EXCEPT !.data = Some([total |-> data.total, page |-> data.page,
                                                           page_size |-> data.page_size]),
                                            !.chunks = chunks, !.i = 1, !.enriched = <<>>,
                                            !.cur = IF chunks[1].r = "dict"
                                                    THEN Some(NewEnriched(chunks[1])) ELSE None],
                                 dc, xc, t, "ds")

\* A dataset lookup whose failure ends the retrieval with an error.
AfterDataset_Fatal(l, dc, xc, t, resp) ==
    LET dataset_info == DatasetInfoOf(resp)
        dataset_id == ChunkDatasetId(l.chunks[l.i])[1]
    IN  IF dataset_info = None THEN StepRec("done", l, Some(ExceptionResult(l)), <<>>, dc, xc)
        ELSE EnrichFrom(WithDatasetName(l, dataset_info[1]),
                        LRUSet(dc, dataset_id, dataset_info[1], t, DatasetCacheSize, ttl_seconds).cache,
                        xc, t, "doc")

\* A loop that does not wait: with the document listing of a chunk it
\* issues the next single-dataset lookup.
AfterDataset_NoWait(l, dc, xc, t, resp) ==
    LET dataset_info == DatasetInfoOf(resp)
        dataset_id == ChunkDatasetId(l.chunks[l.i])[1]
        n == IF dataset_info = None THEN EnrichFrom(l, dc, xc, t, "doc")
             ELSE EnrichFrom(WithDatasetName(l, dataset_info[1]),
                             LRUSet(dc, dataset_id, dataset_info[1], t, DatasetCacheSize, ttl_seconds).cache,
                             xc, t, "doc")
    IN  IF n.pc = "documents" /\ l.i < Len(l.chunks)
        THEN [n EXCEPT !.reqs = @ \o <<Req("dataset", ChunkDatasetId(l.chunks[l.i + 1]))>>]
        ELSE n

\* A lookup whose result is dropped when a clear overtook it.
AfterDataset_DropLate(l, dc, xc, t, resp) ==
    LET dataset_info == DatasetInfoOf(resp)
        dataset_id == ChunkDatasetId(l.chunks[l.i])[1]
    IN  IF dataset_info = None THEN EnrichFrom(l, dc, xc, t, "doc")
        ELSE EnrichFrom(WithDatasetName(l, dataset_info[1]),
                        IF l.overtaken THEN dc
                        ELSE LRUSet(dc, dataset_id, dataset_info[1], t, DatasetCacheSize, ttl_seconds).cache,
                        xc, t, "doc")

\* retrieval when the single-dataset lookup of chunk l.i has answered.
AfterDataset(l, dc, xc, t, resp) ==
    LET dataset_info == DatasetInfoOf(resp)
        dataset_id == ChunkDatasetId(l.chunks[l.i])[1]
    IN  IF dataset_info = None THEN EnrichFrom(l, dc, xc, t, "doc")
        ELSE EnrichFrom(WithDatasetName(l, dataset_info[1]),
                        LRUSet(dc, dataset_id, dataset_info[1], t, DatasetCacheSize, ttl_seconds).cache,
                        xc, t, "doc")

\* A document listing that caches the empty mapping of a failure.
AfterDocuments_CacheFailure(l, dc, xc, t, resp) ==
    LET got == DocumentsOf(resp)
        dataset_id == ChunkDatasetId(l.chunks[l.i])[1]
    IN  EnrichFrom(NextChunk(WithDocument(l, got.docs)), dc,
                   LRUSet(xc, dataset_id, got.docs, t, DocumentCacheSize, ttl_seconds).cache,
                   t, "ds")

\* retrieval when the document listing for chunk l.i has answered.
AfterDocuments(l, dc, xc, t, resp) ==
    LET got == DocumentsOf(resp)
        dataset_id == ChunkDatasetId(l.chunks[l.i])[1]
    IN  EnrichFrom(NextChunk(WithDocument(l, got.docs)), dc,
                   IF got.ok
                   THEN LRUSet(xc, dataset_id, got.docs, t, DocumentCacheSize, ttl_seconds).cache
                   ELSE xc,
                   t, "ds")

-----------------------------------------------------------------------------
(* The invocations of search_documents.  An invocation runs from one       *)
(* network call to the next without interruption (one event loop); each    *)
(* action below is such a run, and the answer of the backend is its input. *)

StrX1 == <<"x", "1">>

StrX2 == <<"x", "2">>

StrX1Padded == <<" ", "x", "1">>

\* The dataset_ids arguments tried.
DatasetArgs ==
    {PyNone, PyStr(<<>>), PyStr(StrNull), PyStr(StrD1Padded), PyInt(5),
     PyList(<<>>), PyList(<<PyStr(<<>>)>>), PyList(<<PyStr(StrD1)>>),
     PyList(<<PyStr(StrD1Padded), PyStr(<<" ">>), PyStr(StrD2)>>),
     PyList(<<PyInt(0), PyInt(7), PyStr(StrD1)>>)}

\* The document_ids arguments tried.
DocumentArgs ==
    {PyNone, PyStr(StrX1), PyList(<<PyStr(<<>>)>>),
     PyList(<<PyStr(StrX1Padded), PyNone, PyStr(StrX2)>>)}

Pages == {2}

PageSizes == {0, 10}

NameOf(id) == IF id = StrD1 THEN "Dataset one" ELSE "Dataset two"

\* What the dataset listing may answer.
ListResponses ==
    {Raise, NonDict, Envelope(None, None, None), Envelope(Some(1), Some("boom"), None),
     Envelope(Some(1), Some("boom"), Some(JList(<<DatasetRec(Some(PyStr(StrD1)), Some("Dataset one"))>>))),
     Envelope(Some(0), None, None)}
    \cup {Envelope(Some(0), None, Some(data)) : data \in
            {JNull, JInt(3), JStr(<<>>), JStr(<<"o", "k">>), JDict(<<>>),
             JDict(<<DatasetRec(Some(PyStr(StrD1)), Some("Dataset one"))>>),
             JList(<<>>),
             JList(<<NonDictItem>>),
             JList(<<DatasetRec(None, Some("No id"))>>),
             JList(<<DatasetRec(Some(PyStr(StrD1)), Some("Dataset one"))>>),
             JList(<<DatasetRec(Some(PyStr(StrD2)), Some("Dataset two")),
                     DatasetRec(Some(PyStr(<<>>)), None),
                     DatasetRec(Some(PyStr(StrD1)), Some("Dataset one"))>>)}}

ChunkA == Chunk("A", Some(StrD1), None, Some(StrX1))

ChunkB == Chunk("B", None, Some(StrD1), Some(StrX2))

ChunkC == Chunk("C", Some(StrD2), Some(StrD1), None)

ChunkNoDataset == Chunk("N", Some(<<>>), None, Some(StrX1))

NonDictChunk == [r |-> "nondict"]

\* The chunk sequences a retrieval response may carry.
ChunkLists ==
    {<<>>, <<ChunkA>>, <<ChunkC>>, <<ChunkNoDataset>>, <<NonDictChunk>>,
     <<ChunkA, ChunkB>>, <<ChunkC, ChunkNoDataset, ChunkA>>, <<ChunkB, NonDictChunk>>}

\* What the retrieval endpoint may answer.
PostResponses ==
    {Raise, NonDict, Envelope(None, None, None), Envelope(Some(1), Some("boom"), None),
     Envelope(Some(1), None, None), Envelope(Some(0), None, None),
     Envelope(Some(0), None, Some(JNull)),
     Envelope(Some(0), None, Some(JRetrieval(None, None, None, None)))}
    \cup {Envelope(Some(0), None, Some(JRetrieval(Some(chunks), None, None, None))) : chunks \in ChunkLists}
    \cup {Envelope(Some(0), None, Some(JRetrieval(Some(chunks), Some(25), Some(1), Some(5)))) : chunks \in ChunkLists}

\* What the single-dataset lookup of id may answer.
DatasetLookupResponses(id) ==
    {Raise, NonDict, Envelope(Some(1), Some("boom"), None), Envelope(Some(0), None, None),
     Envelope(Some(0), None, Some(JList(<<>>))),
     Envelope(Some(0), None, Some(JList(<<DatasetRec(Some(PyStr(id)), None)>>))),
     Envelope(Some(0), None, Some(JList(<<DatasetRec(Some(PyStr(id)), Some(NameOf(id)))>>)))}

\* What the document listing of a dataset may answer.
DocumentsResponses ==
    {Raise, NonDict, Envelope(Some(1), Some("boom"), None), Envelope(Some(0), None, None),
     Envelope(Some(0), None, Some(JNull)),
     Envelope(Some(0), None, Some(JDocs(None))),
     Envelope(Some(0), None, Some(JDocs(Some(<<>>)))),
     Envelope(Some(0), None, Some(JDocs(Some(<<DocRec(Some(StrX1), Some("Doc one"))>>)))),
     Envelope(Some(0), None, Some(JDocs(Some(<<DocRec(None, Some("No id")), DocRec(Some(StrX2), None),
                                               DocRec(Some(StrX1), Some("Doc one"))>>))))}

\* _ensure_connector_initialized: a connector with an open session is kept,
\* otherwise a new connector with empty caches is made and its session opened.
\* An initialisation that does not look at what is there.
EnsureInitialized_Always(sess, dc, xc, m) ==
    [session |-> "open", dataset_cache |-> <<>>, document_cache |-> <<>>,
     made |-> [connectors |-> m.connectors + 1, sessions |-> m.sessions + 1]]

\* m counts the connectors and the sessions made so far.
EnsureInitialized(sess, dc, xc, m) ==
    IF m.connectors > 0 /\ sess # "none"
    THEN [session |-> sess, dataset_cache |-> dc, document_cache |-> xc, made |-> m]
    ELSE [session |-> "open", dataset_cache |-> <<>>, document_cache |-> <<>>,
          made |-> [connectors |-> m.connectors + 1, sessions |-> m.sessions + 1]]

\* The outcome of a single-dataset lookup is a failure: the request raised,
\* the body is no object, the code is not 0, or data holds no record.
DatasetLookupFailed(resp) ==
    \/ resp.k # "dict"
    \/ resp.code # Some(0)
    \/ resp.data = None
    \/ resp.data[1].d # "list"
    \/ resp.data[1].items = <<>>

\* The outcome of a document listing is a failure for doc_id: the request
\* raised, the body or its data is no object, the code is not 0, or no
\* document of the listing has that id.
DocumentsLookupFailed(resp, doc_id) ==
    \/ resp.k # "dict"
    \/ resp.code # Some(0)
    \/ resp.data = None
    \/ resp.data[1].d # "dict"
    \/ resp.data[1].docs = None
    \/ \A j \in 1..Len(resp.data[1].docs[1]) : resp.data[1].docs[1][j].id # Some(doc_id)

\* The request was answered by something else than an envelope with code 0.
Refused(resp) == resp.k # "dict" \/ resp.code # Some(0)

\* The chunks for which a lookup was made are remembered, and of these the
\* ones whose lookup failed.
MarkDataset(l, resp) ==
    [l EXCEPT !.dataset_lookups = @ \cup {l.i},
              !.dataset_failed = IF DatasetLookupFailed(resp) THEN @ \cup {l.i} ELSE @]

MarkDocuments(l, resp) ==
    [l EXCEPT !.documents_lookups = @ \cup {l.i},
              !.documents_failed = IF DocumentsLookupFailed(resp, l.chunks[l.i].document_id[1])
                                   THEN @ \cup {l.i} ELSE @]

\* _request on a connector without session raises RuntimeError before
\* anything is sent: the run that reached the request goes on at once as
\* on a raised request, and so on up to a request that a session takes or
\* to the end of the invocation.  A session that is being closed is still
\* there and takes the request.
RECURSIVE Settle(_, _, _, _)
Settle(step, sess, t, force_refresh) ==
    IF sess # "none" \/ step.pc = "done" THEN step
    ELSE LET l == step.loc
             dc == step.dataset_cache
             xc == step.document_cache
             next == CASE step.pc = "listing"   -> AfterList(l, dc, xc, force_refresh, Raise)
                       [] step.pc = "posting"   -> AfterPost(l, dc, xc, t, Raise)
                       [] step.pc = "dataset"   -> AfterDataset(MarkDataset(l, Raise), dc, xc, t, Raise)
                       [] step.pc = "documents" -> AfterDocuments(MarkDocuments(l, Raise), dc, xc, t, Raise)
             rest == Settle(next, sess, t, force_refresh)
         IN  [rest EXCEPT !.reqs = SubSeq(step.reqs, 1, Len(step.reqs) - 1) \o @]

\* The step n was taken on an answer of the backend: one more is counted,
\* as late when a clear overtook the request, and the request the
\* invocation issues next starts as not overtaken.
Counted(n, l) ==
    [n EXCEPT !.loc.answered = l.answered + 1,
              !.loc.late = l.late + (IF l.overtaken THEN 1 ELSE 0),
              !.loc.overtaken = FALSE]

\* The step n of invocation t takes effect.  When it clears the caches on
\* force_refresh, the lookups the other invocations wait for are marked as
\* overtaken by the clear.
Apply(t, n) ==
    /\ pc' = [pc EXCEPT ![t] = n.pc]
    /\ loc' = [u \in Tasks |->
                  IF u = t THEN n.loc
                  ELSE IF n.loc.cleared /\ ~loc[t].cleared /\ pc[u] \in {"dataset", "documents"}
                  THEN [loc[u] EXCEPT !.overtaken = TRUE]
                  ELSE loc[u]]
    /\ result' = [result EXCEPT ![t] = n.result]
    /\ sent' = [sent EXCEPT ![t] = @ \o n.reqs]
    /\ dataset_cache' = n.dataset_cache
    /\ document_cache' = n.document_cache

\* search_documents is called: the connector is made ready, both filters
\* are normalized and retrieval runs to its first network call.
Invoke(t, ds, doc, page, page_size, force_refresh) ==
    /\ pc[t] = "idle"
    /\ result[t] = None
    /\ LET c == EnsureInitialized(session, dataset_cache, document_cache, made)
           l == [NoLoc EXCEPT !.dataset_ids = ToPy(Normalize(ds)),
                              !.document_ids = ToPy(Normalize(doc)),
                              !.page = page, !.page_size = page_size]
       IN  /\ session' = c.session
           /\ made' = c.made
           /\ uses' = [uses EXCEPT ![t] = c.made.connectors]
           /\ Apply(t, Settle(ResolveScope(l, c.dataset_cache, c.document_cache, force_refresh),
                               c.session, now, force_refresh))
    /\ call' = [call EXCEPT ![t] = [dataset_ids |-> ds, document_ids |-> doc, page |-> page,
                                    page_size |-> page_size, force_refresh |-> force_refresh]]
    /\ UNCHANGED <<now, cacheVars, normVars, requestVars>>

\* The dataset listing answers.
ListResponse(t, resp) ==
    /\ pc[t] = "listing"
    /\ Apply(t, Settle(Counted(AfterList(loc[t], dataset_cache, document_cache, call[t].force_refresh, resp), loc[t]),
                       session, now, call[t].force_refresh))
    /\ UNCHANGED <<session, call, now, cacheVars, normVars, requestVars, serverVars>>

\* The retrieval POST answers.  The filter arguments, which nothing reads
\* after the payload was built, are forgotten with the payload.
PostResponse(t, resp) ==
    /\ pc[t] = "posting"
    /\ Apply(t, Settle(Counted(AfterPost(loc[t], dataset_cache, document_cache, now, resp), loc[t]),
                       session, now, call[t].force_refresh))
    /\ call' = [call EXCEPT ![t].dataset_ids = PyNone, ![t].document_ids = PyNone]
    /\ UNCHANGED <<session, now, cacheVars, normVars, requestVars, serverVars>>

\* The single-dataset lookup answers.
DatasetResponse(t) ==
    /\ pc[t] = "dataset"
    /\ \E resp \in DatasetLookupResponses(ChunkDatasetId(loc[t].chunks[loc[t].i])[1]) :
           Apply(t, Settle(Counted(AfterDataset(MarkDataset(loc[t], resp), dataset_cache, document_cache, now, resp), loc[t]),
                           session, now, call[t].force_refresh))
    /\ UNCHANGED <<session, call, now, cacheVars, normVars, requestVars, serverVars>>

\* The document listing answers.
DocumentsResponse(t, resp) ==
    /\ pc[t] = "documents"
    /\ Apply(t, Settle(Counted(AfterDocuments(MarkDocuments(loc[t], resp), dataset_cache, document_cache, now, resp), loc[t]),
                       session, now, call[t].force_refresh))
    /\ UNCHANGED <<session, call, now, cacheVars, normVars, requestVars, serverVars>>

\* The invocations that run.
Running == {"t1"}

Init ==
    /\ CacheIdle
    /\ now = 0
    /\ NormIdle
    /\ ServerIdle

Next ==
    \E t \in Running :
        \/ \E ds \in DatasetArgs, doc \in DocumentArgs, page \in Pages, page_size \in PageSizes, force_refresh \in BOOLEAN :
               Invoke(t, ds, doc, page, page_size, force_refresh)
        \/ \E resp \in ListResponses : ListResponse(t, resp)
        \/ \E resp \in PostResponses : PostResponse(t, resp)
        \/ DatasetResponse(t)
        \/ \E resp \in DocumentsResponses : DocumentsResponse(t, resp)

Spec == Init /\ [][Next]_vars

\* The backend calls of invocation t that are answered in this step.
Answered(t) ==
    \/ \E resp \in ListResponses : ListResponse(t, resp)
    \/ \E resp \in PostResponses : PostResponse(t, resp)
    \/ DatasetResponse(t)
    \/ \E resp \in DocumentsResponses : DocumentsResponse(t, resp)

\* The same invocations when no backend call stays unanswered for ever:
\* each request is answered, fails or runs into the transport's timeout.
SpecLive == Init /\ [][Next]_vars /\ \A t \in Running : WF_vars(Answered(t))

-----------------------------------------------------------------------------
(* One connector used by concurrent callers: retrieval is called on it     *)
(* directly, by invocations whose runs interleave at their network calls,  *)
(* and cleanup may be called on it at any time.                            *)

\* The dataset_ids the callers pass: none, or the one dataset d1.
ConnDatasetIds == {None, Some(<<PyStr(StrD1)>>)}

ConnListResponses ==
    {Raise, Envelope(Some(0), None, Some(JList(<<DatasetRec(Some(PyStr(StrD1)), Some("Dataset one"))>>)))}

ConnPostResponses ==
    {Envelope(Some(1), Some("boom"), None),
     Envelope(Some(0), None, Some(JRetrieval(Some(<<>>), Some(25), Some(3), Some(5)))),
     Envelope(Some(0), None, Some(JRetrieval(Some(<<ChunkA, ChunkB>>), None, None, None)))}

ConnDocumentsResponses ==
    {Raise, Envelope(Some(0), None, Some(JDocs(Some(<<>>)))),
     Envelope(Some(0), None, Some(JDocs(Some(<<DocRec(Some(StrX1), Some("Doc one"))>>))))}

\* The connector after initialize(): a session, empty caches, no caller.
InitConn ==
    /\ CacheIdle
    /\ now = 0
    /\ NormIdle
    /\ session = "open"
    /\ dataset_cache = <<>>
    /\ document_cache = <<>>
    /\ pc = [t \in Tasks |-> "idle"]
    /\ call = [t \in Tasks |-> NoCall]
    /\ loc = [t \in Tasks |-> NoLoc]
    /\ result = [t \in Tasks |-> None]
    /\ sent = [t \in Tasks |-> <<>>]
    /\ http = NoRequest
    /\ made = [connectors |-> 1, sessions |-> 1]
    /\ uses = [t \in Tasks |-> 0]

\* retrieval is called on the connector with its default page and page_size
\* and runs to its first network call.
Retrieve(t, dataset_ids, force_refresh) ==
    /\ pc[t] = "idle"
    /\ result[t] = None
    /\ LET l == [NoLoc EXCEPT !.dataset_ids = dataset_ids, !.page = 1, !.page_size = 10]
       IN  Apply(t, Settle(ResolveScope(l, dataset_cache, document_cache, force_refresh),
                           session, now, force_refresh))
    /\ call' = [call EXCEPT ![t] = [dataset_ids |-> IF dataset_ids = None THEN PyNone
                                                    ELSE PyList(dataset_ids[1]),
                                    document_ids |-> PyNone, page |-> 1, page_size |-> 10,
                                    force_refresh |-> force_refresh]]
    /\ uses' = [uses EXCEPT ![t] = made.connectors]
    /\ UNCHANGED <<session, made, now, cacheVars, normVars, requestVars>>

\* cleanup up to "await self.session.close()": the session is being closed
\* and is still the connector's session.
CleanupStart ==
    /\ session = "open"
    /\ session' = "closing"
    /\ UNCHANGED <<dataset_cache, document_cache, taskVars, now, cacheVars, normVars, requestVars, serverVars>>

\* cleanup after the await: the session is dropped and the caches cleared.
CleanupFinish ==
    /\ session = "closing"
    /\ session' = "none"
    /\ dataset_cache' = LRUClear(dataset_cache)
    /\ document_cache' = LRUClear(document_cache)
    /\ UNCHANGED <<taskVars, now, cacheVars, normVars, requestVars, serverVars>>

\* cleanup of a connector without session only clears the caches.
CleanupNoSession ==
    /\ session = "none"
    /\ dataset_cache' = LRUClear(dataset_cache)
    /\ document_cache' = LRUClear(document_cache)
    /\ UNCHANGED <<session, taskVars, now, cacheVars, normVars, requestVars, serverVars>>

NextConn ==
    \/ \E t \in Tasks :
        \/ \E dataset_ids \in ConnDatasetIds, force_refresh \in BOOLEAN : Retrieve(t, dataset_ids, force_refresh)
        \/ \E resp \in ConnListResponses : ListResponse(t, resp)
        \/ \E resp \in ConnPostResponses : PostResponse(t, resp)
        \/ DatasetResponse(t)
        \/ \E resp \in ConnDocumentsResponses : DocumentsResponse(t, resp)
    \/ CleanupStart
    \/ CleanupFinish
    \/ CleanupNoSession

SpecConn == InitConn /\ [][NextConn]_vars

-----------------------------------------------------------------------------
(* One call of _request: the guard on the session, the URL, and what is    *)
(* made of whatever the transport answers.                                 *)

\* RAGFlowConnector.base_url and api_url, as Python strings.
BaseUrl == <<"h">>

ApiUrl == BaseUrl \o <<"/", "a", "p", "i", "/", "v", "1">>

\* str.startswith
StartsWith(str, prefix) ==
    /\ Len(prefix) <= Len(str)
    /\ SubSeq(str, 1, Len(prefix)) = prefix

\* The URL _request builds for a path.
UrlOf(path) ==
    IF StartsWith(path, <<"/", "a", "p", "i", "/">>) THEN BaseUrl \o path ELSE ApiUrl \o path

\* The paths asked for: the two the connector uses and one under /api/.
PathDatasets == <<"/", "d", "a", "t", "a", "s", "e", "t", "s">>

PathRetrieval == <<"/", "r", "e", "t", "r", "i", "e", "v", "a", "l">>

PathApi == <<"/", "a", "p", "i", "/", "x">>

Paths == {PathDatasets, PathRetrieval, PathApi}

\* What the transport may do with a request: run into the timeout, fail
\* with a ClientError, or deliver a response.  A response has a status,
\* a Content-Type that is application/json or not, the raw text of its
\* body, and what json.loads makes of that text (None: it is no JSON).
TimedOut == [k |-> "timeout"]

TransportFailed == [k |-> "client_error"]

Response(status, json_type, text, parsed) ==
    [k |-> "response", status |-> status, json_type |-> json_type, text |-> text, parsed |-> parsed]

Statuses == {200, 204, 399, 400, 404, 500}

Bodies == {[text |-> "{\"code\": 0}", parsed |-> Some([j |-> "object", members |-> <<"code", "0">>])],
           [text |-> "[1]", parsed |-> Some([j |-> "array", members |-> <<"1">>])],
           [text |-> "<html>", parsed |-> None]}

Answers ==
    {TimedOut, TransportFailed}
    \cup {Response(status, json_type, b.text, b.parsed) :
              status \in Statuses, json_type \in BOOLEAN, b \in Bodies}

\* What a call of _request comes to: a value returned or a RuntimeError.
Returned(value) == [k |-> "return", value |-> value]

Raised(what, status, text) == [k |-> "raise", what |-> what, status |-> status, text |-> text]

EmptyObject == [j |-> "object", members |-> <<>>]

DataObject(text) == [j |-> "object", members |-> <<"data", text>>]

\* ClientResponse.json() as _request calls it, with the default
\* content_type: a response whose Content-Type is not application/json
\* raises ContentTypeError, which is a ClientError, before anything is
\* decoded; otherwise the body is decoded or json.JSONDecodeError raised.
ResponseJson_AnyType(r) ==
    IF r.parsed = None THEN [k |-> "decode_error"] ELSE [k |-> "value", value |-> r.parsed[1]]

ResponseJson(r) ==
    IF ~r.json_type THEN [k |-> "client_error"]
    ELSE IF r.parsed = None THEN [k |-> "decode_error"]
    ELSE [k |-> "value", value |-> r.parsed[1]]

\* The body of the try block of _request and its two handlers.
RequestOutcome(a) ==
    CASE a.k = "timeout" -> Raised("timeout", None, None)
      [] a.k = "client_error" -> Raised("connection", None, None)
      [] a.k = "response" ->
            IF a.status >= 400 THEN Raised("api_error", Some(a.status), Some(a.text))
            ELSE IF a.status = 204 THEN Returned(EmptyObject)
            ELSE LET j == ResponseJson(a)
                 IN  CASE j.k = "value" -> Returned(j.value)
                       [] j.k = "decode_error" -> Returned(DataObject(a.text))
                       [] j.k = "client_error" -> Raised("connection", None, None)

RequestIdle ==
    /\ pc = [t \in Tasks |-> "idle"]
    /\ call = [t \in Tasks |-> NoCall]
    /\ loc = [t \in Tasks |-> NoLoc]
    /\ result = [t \in Tasks |-> None]
    /\ sent = [t \in Tasks |-> <<>>]
    /\ dataset_cache = <<>>
    /\ document_cache = <<>>
    /\ uses = [t \in Tasks |-> 0]

\* A connector as its constructor leaves it: no session, no call.
InitRequest ==
    /\ CacheIdle
    /\ now = 0
    /\ NormIdle
    /\ RequestIdle
    /\ session = "none"
    /\ made = [connectors |-> 1, sessions |-> 0]
    /\ http = NoRequest

\* How many sessions one connector is given in a run.
MaxSessions == 2

\* initialize: a connector without session gets one.
Initialize ==
    /\ session = "none"
    /\ made.sessions < MaxSessions
    /\ session' = "open"
    /\ made' = [made EXCEPT !.sessions = @ + 1]
    /\ UNCHANGED <<dataset_cache, document_cache, taskVars, now, cacheVars, normVars, requestVars, uses>>

\* _request is called: without session it raises at once, otherwise the
\* request goes on the wire.
Request(path) ==
    /\ http.pc = "idle"
    /\ http' = IF session = "none"
               THEN [http EXCEPT !.pc = "done", !.outcome = Some(Raised("no_session", None, None))]
               ELSE [http EXCEPT !.pc = "sent", !.url = Some(UrlOf(path)), !.wire = @ + 1]
    /\ UNCHANGED <<now, cacheVars, normVars, connVars, taskVars, serverVars>>

\* The transport answers the request that is on the wire.
Answer(a) ==
    /\ http.pc = "sent"
    /\ http' = [http EXCEPT !.pc = "done", !.response = Some(a), !.outcome = Some(RequestOutcome(a))]
    /\ UNCHANGED <<now, cacheVars, normVars, connVars, taskVars, serverVars>>

NextRequest ==
    \/ Initialize
    \/ CleanupStart
    \/ CleanupFinish
    \/ \E path \in Paths : Request(path)
    \/ \E a \in Answers : Answer(a)

SpecRequest == InitRequest /\ [][NextRequest]_vars

-----------------------------------------------------------------------------
(* The server with its three tools, called by concurrent callers: every    *)
(* tool makes the connector ready and runs on it to its network calls.     *)

\* len(datasets) of what list_datasets returned.
LenOf(datasets) == IF datasets.d = "str" THEN Len(datasets.s) ELSE Len(datasets.items)

\* What ragflow_health_check returns once list_datasets has returned.
HealthResult(datasets) ==
    [via |-> "health", status |-> "ok", connection |-> Some("working"),
     datasets_count |-> Some(LenOf(datasets))]

\* What the list_datasets tool returns: the listing with its total, or the
\* error of the comprehension over elements that have no get.
ListToolResult(datasets) ==
    IF ListingRaises(datasets)
    THEN [via |-> "list_tool", error |-> Some("exception"), total |-> None]
    ELSE [via |-> "list_tool", error |-> None, total |-> Some(Len(datasets.items))]

\* ragflow_health_check or the list_datasets tool is called: the connector
\* is made ready and list_datasets sends its request.
ToolCall(t, tool) ==
    /\ pc[t] = "idle"
    /\ result[t] = None
    /\ LET c == EnsureInitialized(session, dataset_cache, document_cache, made)
       IN  /\ session' = c.session
           /\ made' = c.made
           /\ uses' = [uses EXCEPT ![t] = c.made.connectors]
           /\ dataset_cache' = c.dataset_cache
           /\ document_cache' = c.document_cache
    /\ pc' = [pc EXCEPT ![t] = tool]
    /\ sent' = [sent EXCEPT ![t] = Append(@, Req("list", None))]
    /\ UNCHANGED <<call, loc, result, now, cacheVars, normVars, requestVars>>

\* The listing of ragflow_health_check answers.
HealthResponse(t, resp) ==
    /\ pc[t] = "health"
    /\ pc' = [pc EXCEPT ![t] = "done"]
    /\ loc' = [loc EXCEPT ![t].list_response = Some(resp), ![t].answered = @ + 1]
    /\ result' = [result EXCEPT ![t] = Some(HealthResult(ListDatasetsResult(resp)))]
    /\ UNCHANGED <<call, sent, now, cacheVars, normVars, connVars, requestVars, serverVars>>

\* The listing of the list_datasets tool answers.
ListToolResponse(t, resp) ==
    /\ pc[t] = "list_tool"
    /\ pc' = [pc EXCEPT ![t] = "done"]
    /\ loc' = [loc EXCEPT ![t].list_response = Some(resp), ![t].answered = @ + 1]
    /\ result' = [result EXCEPT ![t] = Some(ListToolResult(ListDatasetsResult(resp)))]
    /\ UNCHANGED <<call, sent, now, cacheVars, normVars, connVars, requestVars, serverVars>>

\* What the callers of the server pass as dataset_ids.
ServerDatasetArgs == {PyNone, PyStr(StrD1)}

\* What a listing asked for by a tool may answer.
ToolListResponses ==
    {Raise, NonDict, Envelope(Some(1), Some("boom"), None),
     Envelope(Some(0), None, Some(JList(<<>>))),
     Envelope(Some(0), None, Some(JStr(<<"o", "k">>))),
     Envelope(Some(0), None, Some(JList(<<DatasetRec(Some(PyStr(StrD1)), Some("Dataset one"))>>)))}

NextServer ==
    \E t \in Tasks :
        \/ \E ds \in ServerDatasetArgs, force_refresh \in BOOLEAN : Invoke(t, ds, PyNone, 1, 10, force_refresh)
        \/ ToolCall(t, "health")
        \/ ToolCall(t, "list_tool")
        \/ \E resp \in ToolListResponses : HealthResponse(t, resp)
        \/ \E resp \in ToolListResponses : ListToolResponse(t, resp)
        \/ \E resp \in ConnListResponses : ListResponse(t, resp)
        \/ \E resp \in ConnPostResponses : PostResponse(t, resp)
        \/ DatasetResponse(t)
        \/ \E resp \in ConnDocumentsResponses : DocumentsResponse(t, resp)

SpecServer == Init /\ [][NextServer]_vars

-----------------------------------------------------------------------------
(* Properties of the cache, stated over the recorded operations.           *)

Last(s) == s[Len(s)]

Max(S) == CHOOSE x \in S : \A y \in S : y <= x

Entries(c) == {c[i] : i \in 1..Len(c)}

\* The calls made on the cache, clock advances left out.
Calls == SelectSeq(ops, LAMBDA o : o.op # "tick")

\* Operation o touches key: a set, or a get that returned a value.
IsTouch(o, key) == o.key = key /\ (o.op = "set" \/ (o.op = "get" /\ o.ret # None))

\* The position of the last touch of key among the first n operations, or 0.
LastTouch(key, n) == Max({0} \cup {i \in 1..n : IsTouch(ops[i], key)})

\* The position of the most recent set of key before operation j, or 0.
LastSetIdx(key, j) == Max({0} \cup {i \in 1..(j - 1) : ops[i].op = "set" /\ ops[i].key = key})

\* Between operations i and j a clear happened or key was evicted by a set.
Removed(key, i, j) ==
    \E m \in (i + 1)..(j - 1) :
        \/ ops[m].op = "clear"
        \/ ops[m].op = "set" /\ ops[m].evicted = Some(key)

\* C1: the cache never holds more than max_size entries, whatever sequence
\* of get, set and clear was performed and whatever the clock read.
C1_SizeBounded == Len(cache) <= max_size

\* A set has just overflowed the cache and evicted an entry.
C1_Witness ==
    /\ ops # <<>>
    /\ Last(ops).op = "set"
    /\ Last(ops).evicted # None
    /\ Len(cache) = max_size

\* Calls i..i+max_size are sets of pairwise distinct keys, the calls after
\* them up to j are gets, and call j is made within the TTL of the first set.
LRUPattern(cs, i, j) ==
    /\ i + max_size < j
    /\ j <= Len(cs)
    /\ \A m \in i..(i + max_size) : cs[m].op = "set"
    /\ \A m, n \in i..(i + max_size) : m # n => cs[m].key # cs[n].key
    /\ \A m \in (i + max_size + 1)..j : cs[m].op = "get"
    /\ cs[j].at <= cs[i].at + ttl_seconds

\* C2: after max_size + 1 sets of distinct keys in a row, all within the
\* TTL, a get of the first key returns None and a get of any of the other
\* max_size keys returns the value set for it.
C2_LRUProperty ==
    LET cs == Calls
    IN  \A i, j \in 1..Len(cs) :
            LRUPattern(cs, i, j) =>
                /\ cs[j].key = cs[i].key => cs[j].ret = None
                /\ \A m \in (i + 1)..(i + max_size) :
                       cs[j].key = cs[m].key => cs[j].ret = cs[m].val

\* The pattern of C2 has happened and the first-inserted key was read.
C2_Witness ==
    LET cs == Calls
    IN  \E i, j \in 1..Len(cs) : LRUPattern(cs, i, j) /\ cs[j].key = cs[i].key

\* C3: a get made after the TTL has elapsed since the most recent set of its
\* key returns None; a get made before the TTL has elapsed, with no eviction
\* of the key and no clear in between, returns the value of that set.
C3_TTLProperty ==
    \A j \in 1..Len(ops) :
        ops[j].op = "get" =>
            LET i == LastSetIdx(ops[j].key, j)
            IN  i > 0 =>
                    /\ ops[j].at > ops[i].at + ttl_seconds => ops[j].ret = None
                    /\ (ops[j].at < ops[i].at + ttl_seconds /\ ~Removed(ops[j].key, i, j))
                           => ops[j].ret = ops[i].val

\* A get has just found an entry that was still stored but past its TTL.
C3_Witness ==
    /\ ops # <<>>
    /\ Last(ops).op = "get"
    /\ LET j == Len(ops)
           i == LastSetIdx(ops[j].key, j)
       IN  /\ i > 0
           /\ ~Removed(ops[j].key, i, j)
           /\ \A m \in (i + 1)..(j - 1) : ops[m].op # "get"
           /\ ops[j].at > ops[i].at + ttl_seconds

\* The scenario of C4: set a, set b, a successful get a, set c.
TouchScenario(cs, a, b, c) ==
    /\ Len(cs) = 4
    /\ cs[1].op = "set" /\ cs[1].key = a
    /\ cs[2].op = "set" /\ cs[2].key = b
    /\ cs[3].op = "get" /\ cs[3].key = a /\ cs[3].ret # None
    /\ cs[4].op = "set" /\ cs[4].key = c

\* C4: the entry a set evicts is the one whose last touch (a set, or a get
\* that returned a value) is the oldest of all entries; with capacity 2,
\* set a, set b, get a, set c evicts b and keeps a.
C4_TouchOrder ==
    /\ (ops # <<>> /\ Last(ops).op = "set" /\ Last(ops).evicted # None) =>
           LET n == Len(ops)
               e == ops[n].evicted[1]
           IN  /\ ~CacheHas(cache, e)
               /\ LastTouch(e, n - 1) > 0
               /\ \A i \in 1..Len(cache) : LastTouch(e, n - 1) < LastTouch(cache[i].key, n)
    /\ \A a, b, c \in Keys :
           (max_size = 2 /\ Cardinality({a, b, c}) = 3 /\ TouchScenario(Calls, a, b, c)) =>
               /\ Last(ops).evicted = Some(b)
               /\ CacheHas(cache, a)
               /\ ~CacheHas(cache, b)

\* The scenario of C4 has just been performed.
C4_Witness ==
    /\ ops # <<>>
    /\ Last(ops).op = "set"
    /\ \E a, b, c \in Keys : Cardinality({a, b, c}) = 3 /\ TouchScenario(Calls, a, b, c)

\* The step appends a get to the recorded operations.
GetStep == Len(ops') = Len(ops) + 1 /\ Last(ops').op = "get"

\* C5: a get of an absent key leaves the cache as it is; a get of an expired
\* key removes that entry and no other; a get of a fresh key changes only
\* the order (the key becomes the most recently used), no value or expiry.
C5_GetFrame ==
    [][GetStep =>
        LET key == Last(ops').key
        IN  IF ~CacheHas(cache, key)
            THEN cache' = cache
            ELSE IF now > cache[CacheIndex(cache, key)].expiry
                 THEN cache' = SelectSeq(cache, LAMBDA e : e.key # key)
                 ELSE /\ Entries(cache') = Entries(cache)
                      /\ Len(cache') = Len(cache)
                      /\ Last(cache').key = key]_vars

\* A get has just removed its expired entry while another entry is stored.
C5_Witness ==
    /\ C3_Witness
    /\ Len(cache) >= 1

-----------------------------------------------------------------------------
(* Properties of the normalizer.                                           *)

\* A str that is non-empty and has no whitespace at either end.
TrimmedNonEmpty(x) == x # <<>> /\ x[1] \notin Whitespace /\ x[Len(x)] \notin Whitespace

\* C6: whatever the argument, the normalizer yields None or a non-empty list
\* of trimmed, non-empty strings, and never an empty list.
C6_NormalizerContract ==
    npc = "out" =>
        \/ normalized = None
        \/ /\ normalized[1] # <<>>
           /\ \A i \in 1..Len(normalized[1]) : TrimmedNonEmpty(normalized[1][i])

\* A non-empty list of trimmed, non-empty strings.
Canonical(v) ==
    /\ v.t = "list"
    /\ v.items # <<>>
    /\ \A i \in 1..Len(v.items) : v.items[i].t = "str" /\ TrimmedNonEmpty(v.items[i].s)

\* C7: a canonical list normalizes to itself, so that normalizing the result
\* again changes nothing, and None, "", "null" and [] normalize to None.
C7_NormalizerIdempotence ==
    npc = "out" =>
        /\ Canonical(arg) =>
               /\ normalized = Some([i \in 1..Len(arg.items) |-> arg.items[i].s])
               /\ Normalize(PyList([i \in 1..Len(normalized[1]) |-> PyStr(normalized[1][i])]))
                      = normalized
        /\ arg \in {PyNone, PyStr(<<>>), PyStr(StrNull), PyList(<<>>)} => normalized = None

-----------------------------------------------------------------------------
(* Properties of the retrieval pipeline.                                   *)

\* The elements of a list argument that are truthy and non-empty after
\* string coercion and trimming, coerced and trimmed, in their order.
KeptElems(v) ==
    LET kept == SelectSeq(v.items, LAMBDA d : Truthy(d) /\ Strip(StrOf(d)) # <<>>)
    IN  [i \in 1..Len(kept) |-> PyStr(Strip(StrOf(kept[i])))]

\* The invocation has issued a request of this kind.
HasSent(t, kind) == \E i \in 1..Len(sent[t]) : sent[t][i].kind = kind

\* The document_ids field of the POST holds exactly the kept elements of a
\* list-valued document_ids argument (no field when there is none).
DocumentIdsCarried(t) ==
    call[t].document_ids.t = "list" =>
        loc[t].payload[1].document_ids =
            IF KeptElems(call[t].document_ids) = <<>> THEN None
            ELSE Some(KeptElems(call[t].document_ids))

\* C8 as claimed: in the POST of an invocation, the dataset_ids and the
\* document_ids field hold exactly the kept elements of a list-valued
\* argument, in order, and nothing else.
C8_NoIdDropped_AsClaimed ==
    \A t \in Tasks :
        pc[t] = "posting" =>
            /\ call[t].dataset_ids.t = "list" =>
                   loc[t].payload[1].dataset_ids = KeptElems(call[t].dataset_ids)
            /\ DocumentIdsCarried(t)

\* C8 as amended: as above, except that a dataset_ids list without any kept
\* element makes the invocation list the datasets first, and dataset_ids
\* then holds what that listing gave (its records' ids), not the empty list.
C8_NoIdDropped ==
    \A t \in Tasks :
        pc[t] = "posting" =>
            /\ call[t].dataset_ids.t = "list" =>
                   IF KeptElems(call[t].dataset_ids) # <<>>
                   THEN loc[t].payload[1].dataset_ids = KeptElems(call[t].dataset_ids)
                   ELSE /\ sent[t] = <<Req("list", None), Req("retrieval", None)>>
                        /\ loc[t].all_datasets # None
                        /\ loc[t].payload[1].dataset_ids = ListedIds(loc[t].all_datasets[1].items)
            /\ DocumentIdsCarried(t)

\* A POST is out for list arguments of which elements were dropped, kept
\* and trimmed.
C8_Witness ==
    \E t \in Tasks :
        /\ pc[t] = "posting"
        /\ call[t].dataset_ids.t = "list"
        /\ call[t].document_ids.t = "list"
        /\ Len(loc[t].payload[1].dataset_ids) > 1
        /\ Len(loc[t].payload[1].dataset_ids) < Len(call[t].dataset_ids.items)
        /\ loc[t].payload[1].dataset_ids[1] # call[t].dataset_ids.items[1]
        /\ loc[t].payload[1].document_ids # None

\* C9: when the invocation had to list the datasets and the listing gave
\* nothing, it returns chunks = [] with a non-empty error and never issues a
\* request to the retrieval endpoint.
C9_NoDatasets ==
    \A t \in Tasks :
        (loc[t].all_datasets # None /\ NoDatasets(loc[t].all_datasets[1])) =>
            /\ pc[t] = "done"
            /\ result[t] # None
            /\ result[t][1].chunks = <<>>
            /\ result[t][1].error # None
            /\ result[t][1].error[1] # ""
            /\ ~HasSent(t, "retrieval")

\* An invocation without usable dataset_ids has ended on an empty listing.
C9_Witness ==
    \E t \in Tasks :
        /\ pc[t] = "done"
        /\ RetrievalFilter(ToPy(Normalize(call[t].dataset_ids))) = None
        /\ loc[t].all_datasets # None
        /\ NoDatasets(loc[t].all_datasets[1])
        /\ sent[t] = <<Req("list", None)>>

\* C10: when the normalized dataset_ids is not None, the invocation issues
\* no dataset-listing request and its POST carries exactly the normalized
\* dataset ids.
C10_ExplicitScope ==
    \A t \in Tasks :
        (pc[t] # "idle" /\ Normalize(call[t].dataset_ids) # None) =>
            /\ ~HasSent(t, "list")
            /\ pc[t] = "posting" =>
                   loc[t].payload[1].dataset_ids = ToPy(Normalize(call[t].dataset_ids))[1]

\* The invocation has issued a single-dataset lookup or a document listing.
HasEnriched(t) == HasSent(t, "dataset") \/ HasSent(t, "documents")

\* The POST of the invocation was answered by an envelope whose code is not 0.
NonZeroCode(t) ==
    /\ loc[t].post_result # None
    /\ loc[t].post_result[1].k = "dict"
    /\ loc[t].post_result[1].code # Some(0)

\* The pagination block of a result without chunks, at the requested page.
ZeroAtRequested(t) ==
    Some([page |-> call[t].page, page_size |-> call[t].page_size, total_chunks |-> 0, total_pages |-> 0])

\* C11: when the envelope of the retrieval response has a code other than 0,
\* the result has no chunks, its error is the backend's message (a fixed
\* text when the envelope has none), its pagination is zero at the requested
\* page and page_size, and no enrichment lookup is issued.
C11_BackendError ==
    \A t \in Tasks :
        NonZeroCode(t) =>
            /\ pc[t] = "done"
            /\ result[t] # None
            /\ result[t][1].chunks = <<>>
            /\ result[t][1].error =
                   IF loc[t].post_result[1].message # None THEN loc[t].post_result[1].message
                   ELSE Some("Unknown error from RAGFlow")
            /\ result[t][1].pagination = ZeroAtRequested(t)
            /\ ~HasEnriched(t)

\* An invocation has ended on an envelope with code 1 and message "boom".
C11_Witness ==
    \E t \in Tasks :
        /\ pc[t] = "done"
        /\ NonZeroCode(t)
        /\ loc[t].post_result[1].code = Some(1)
        /\ loc[t].post_result[1].message = Some("boom")
        /\ result[t][1].error = Some("boom")
        /\ call[t].page_size = 10

\* What can fail in an invocation that has ended: the listing gave nothing
\* or something that is no list of objects; the POST raised, was no object,
\* had a code other than 0 or data that is no object; a chunk is no object;
\* page_size is 0 when the pages are counted.
ListingFailed(t) ==
    /\ loc[t].all_datasets # None
    /\ NoDatasets(loc[t].all_datasets[1]) \/ ListingRaises(loc[t].all_datasets[1])

PostFailed(t) ==
    /\ loc[t].post_result # None
    /\ \/ loc[t].post_result[1].k # "dict"
       \/ loc[t].post_result[1].code # Some(0)
       \/ loc[t].post_result[1].d \notin {"absent", "dict"}

MalformedChunk(t) == \E i \in 1..Len(loc[t].chunks) : loc[t].chunks[i].r # "dict"

ZeroPageSize(t) == loc[t].chunks # <<>> /\ call[t].page_size = 0

Failed(t) == ListingFailed(t) \/ PostFailed(t) \/ MalformedChunk(t) \/ ZeroPageSize(t)

\* C12: an invocation that has ended has a result, and no invocation ends
\* otherwise; whatever failed, the result has no chunks and a non-empty
\* error.
C12_AlwaysAResult ==
    \A t \in Tasks :
        /\ pc[t] = "done" <=> result[t] # None
        /\ (pc[t] = "done" /\ Failed(t)) =>
               /\ result[t][1].chunks = <<>>
               /\ result[t][1].error # None
               /\ result[t][1].error[1] # ""

\* Invocations have ended on each kind of failure: here on page_size = 0
\* after its chunks were enriched.
C12_Witness ==
    \E t \in Tasks :
        /\ pc[t] = "done"
        /\ ZeroPageSize(t)
        /\ ~MalformedChunk(t)
        /\ HasEnriched(t)
        /\ result[t][1].error = Some("Retrieval failed")

\* C13: when the dataset lookup or the document lookup of a chunk has
\* failed, an invocation with a page_size of at least 1 and chunks that are
\* objects goes on, ends with a done result, and that result holds the
\* backend's chunk at its place, without dataset_name (respectively without
\* document_name and document_metadata).
C13_EnrichmentBestEffort ==
    \A t \in Tasks :
        (/\ loc[t].dataset_failed \cup loc[t].documents_failed # {}
         /\ call[t].page_size >= 1
         /\ ~MalformedChunk(t)) =>
            /\ pc[t] \in {"dataset", "documents", "done"}
            /\ pc[t] = "done" =>
                   /\ result[t][1].via = "done"
                   /\ result[t][1].error = None
                   /\ Len(result[t][1].chunks) = Len(loc[t].chunks)
                   /\ \A i \in loc[t].dataset_failed :
                          /\ result[t][1].chunks[i].chunk = loc[t].chunks[i]
                          /\ result[t][1].chunks[i].dataset_name = None
                   /\ \A i \in loc[t].documents_failed :
                          /\ result[t][1].chunks[i].chunk = loc[t].chunks[i]
                          /\ result[t][1].chunks[i].document_name = None
                          /\ result[t][1].chunks[i].document_metadata = None

\* An invocation is done after failed dataset lookups and a failed document
\* lookup, not for the same chunks, with a chunk whose document was found.
C13_Witness ==
    \E t \in Tasks :
        /\ pc[t] = "done"
        /\ result[t][1].via = "done"
        /\ loc[t].dataset_failed # {}
        /\ loc[t].documents_failed # {}
        /\ loc[t].dataset_failed # loc[t].documents_failed
        /\ \E i \in loc[t].dataset_failed : result[t][1].chunks[i].document_name # None

\* C14: in every done result the chunks are as many as the backend's and
\* the i-th is the enrichment of the backend's i-th, whatever the lookups
\* answered.
C14_OrderPreserved ==
    \A t \in Tasks :
        (result[t] # None /\ result[t][1].via = "done") =>
            /\ Len(result[t][1].chunks) = Len(loc[t].chunks)
            /\ \A i \in 1..Len(loc[t].chunks) : result[t][1].chunks[i].chunk = loc[t].chunks[i]

\* A done result of three different chunks, reached through lookups.
C14_Witness ==
    \E t \in Tasks :
        /\ result[t] # None
        /\ result[t][1].via = "done"
        /\ Len(result[t][1].chunks) = 3
        /\ result[t][1].chunks[1].chunk # result[t][1].chunks[3].chunk
        /\ HasEnriched(t)

\* C15: in every result with a pagination block, total_pages is the ceiling
\* of total_chunks / page_size for the total_chunks and the page_size of
\* that block (a block with page_size 0 has no such quotient).
C15_PaginationArithmetic ==
    \A t \in Tasks :
        (result[t] # None /\ result[t][1].pagination # None /\ result[t][1].pagination[1].page_size > 0) =>
            LET p == result[t][1].pagination[1]
            IN  p.total_pages = (p.total_chunks + p.page_size - 1) \div p.page_size

\* C17: list_datasets returns a sequence for every outcome of its request:
\* the empty list when the request raised, the body is no object or the
\* code is not 0; otherwise the list that data is, the empty list when data
\* is null or absent, and the values of data when data is an object.
C17_ListDatasetsTotal ==
    \A t \in Tasks :
        loc[t].list_response # None =>
            LET resp == loc[t].list_response[1]
                ret == loc[t].all_datasets[1]
            IN  /\ ret.d \in {"list", "str"}
                /\ (resp.k # "dict" \/ resp.code # Some(0)) => ret = JList(<<>>)
                /\ (resp.k = "dict" /\ resp.code = Some(0)) =>
                       /\ resp.data = None => ret = JList(<<>>)
                       /\ (resp.data # None /\ resp.data[1].d = "null") => ret = JList(<<>>)
                       /\ (resp.data # None /\ resp.data[1].d = "list") => ret = resp.data[1]
                       /\ (resp.data # None /\ resp.data[1].d = "dict") => ret = JList(resp.data[1].items)

\* list_datasets has returned the three records of a listing with code 0.
C17_Witness ==
    \E t \in Tasks :
        /\ loc[t].list_response # None
        /\ loc[t].list_response[1].k = "dict"
        /\ loc[t].list_response[1].code = Some(0)
        /\ loc[t].list_response[1].data # None
        /\ loc[t].list_response[1].data[1].d = "list"
        /\ Len(loc[t].all_datasets[1].items) = 3

\* The step issues a request of this kind for invocation t.
Issues(t, kind) ==
    /\ Len(sent'[t]) = Len(sent[t]) + 1
    /\ sent'[t][Len(sent'[t])].kind = kind

\* C19: once a document listing of a dataset has been fetched and cached,
\* get_documents issues no request for that dataset while the entry is in
\* the cache: whenever a document-listing request is issued, the cache holds
\* no entry for its dataset.
C19_DocumentsCached ==
    [][\A t \in Tasks :
           Issues(t, "documents") =>
               ~CacheHas(document_cache', sent'[t][Len(sent'[t])].id[1])]_vars

-----------------------------------------------------------------------------
(* Properties of the connector under concurrent callers.                   *)

\* The id of the lookup invocation t is waiting for.
Outstanding(t) == sent[t][Len(sent[t])].id

\* C16: the run in which an invocation with force_refresh issues its POST
\* leaves both caches empty; it comes after the answer of the dataset
\* listing if there was one, and before any enrichment lookup of the
\* invocation, so that whatever its enrichment reads was cached later.
C16_ForceRefresh ==
    [][\A t \in Tasks :
           (Issues(t, "retrieval") /\ call'[t].force_refresh) =>
               /\ dataset_cache' = <<>>
               /\ document_cache' = <<>>
               /\ HasSent(t, "list") => pc[t] = "listing"
               /\ ~HasEnriched(t)]_vars

\* An invocation with force_refresh has listed the datasets and issued its
\* POST on an open connector with empty caches, after another invocation
\* had a dataset and a document resolved and cached.
C16_Witness ==
    \E t, u \in Tasks :
        /\ session = "open"
        /\ pc[t] = "posting"
        /\ call[t].force_refresh
        /\ HasSent(t, "list")
        /\ dataset_cache = <<>>
        /\ document_cache = <<>>
        /\ pc[u] = "done"
        /\ ~call[u].force_refresh
        /\ HasSent(u, "dataset")
        /\ HasSent(u, "documents")
        /\ result[u][1].chunks # <<>>
        /\ result[u][1].chunks[1].dataset_name # None
        /\ result[u][1].chunks[1].document_name # None

\* C18: no single-dataset lookup is issued for an id that the dataset cache
\* holds, and no two invocations wait for the lookup of the same id at the
\* same time.
C18_ResolvedOnce ==
    /\ [](\A t, u \in Tasks :
              (t # u /\ pc[t] = "dataset" /\ pc[u] = "dataset") => Outstanding(t) # Outstanding(u))
    /\ [][\A t \in Tasks :
              Issues(t, "dataset") => ~CacheHas(dataset_cache', sent'[t][Len(sent'[t])].id[1])]_vars

\* C20: once cleanup has started no invocation issues a request on the
\* connector, and once it has finished the caches are empty.
C20_TeardownAtomic ==
    /\ [](session = "none" => (dataset_cache = <<>> /\ document_cache = <<>>))
    /\ [][(session \in {"closing", "none"}) => (sent' = sent)]_vars

-----------------------------------------------------------------------------
(* Properties of _request.                                                 *)

\* C21: every call of _request has the one outcome its answer determines:
\* without session it raises and nothing goes on the wire; a timeout and a
\* transport failure raise; a response with status >= 400 raises with the
\* status and the raw body; otherwise status 204 returns {}; otherwise a
\* JSON body returns its decoded value and a body that is no JSON returns
\* {"data": raw text}.
C21_RequestOutcomes ==
    http.pc = "done" =>
        LET o == http.outcome[1]
        IN  IF http.response = None
            THEN o = Raised("no_session", None, None) /\ http.wire = 0 /\ http.url = None
            ELSE LET a == http.response[1]
                 IN  /\ http.wire = 1
                     /\ a.k = "timeout" => o = Raised("timeout", None, None)
                     /\ a.k = "client_error" => o = Raised("connection", None, None)
                     /\ a.k = "response" =>
                            o = IF a.status >= 400 THEN Raised("api_error", Some(a.status), Some(a.text))
                                ELSE IF a.status = 204 THEN Returned(EmptyObject)
                                ELSE IF a.parsed # None THEN Returned(a.parsed[1])
                                ELSE Returned(DataObject(a.text))

\* What holds of _request: the same, but that below status 400 and other
\* than 204 a response whose Content-Type is not application/json raises
\* the connection error, whatever its body.
C21_RequestOutcomes_ByContentType ==
    http.pc = "done" =>
        LET o == http.outcome[1]
        IN  IF http.response = None
            THEN o = Raised("no_session", None, None) /\ http.wire = 0 /\ http.url = None
            ELSE LET a == http.response[1]
                 IN  /\ http.wire = 1
                     /\ a.k = "timeout" => o = Raised("timeout", None, None)
                     /\ a.k = "client_error" => o = Raised("connection", None, None)
                     /\ a.k = "response" =>
                            o = IF a.status >= 400 THEN Raised("api_error", Some(a.status), Some(a.text))
                                ELSE IF a.status = 204 THEN Returned(EmptyObject)
                                ELSE IF ~a.json_type THEN Raised("connection", None, None)
                                ELSE IF a.parsed # None THEN Returned(a.parsed[1])
                                ELSE Returned(DataObject(a.text))

\* A body that is no JSON came with status 200 and the call raised.
C21_NonJsonRaised ==
    /\ http.pc = "done"
    /\ http.response # None
    /\ http.response[1].k = "response"
    /\ http.response[1].status = 200
    /\ http.response[1].parsed = None
    /\ http.outcome[1].k = "raise"

-----------------------------------------------------------------------------
(* Properties of the server's tools.                                       *)

\* The listing that invocation t asked for failed: the request raised
\* (connection error, timeout, HTTP error) or the envelope's code is not 0.
ToolListingFailed(t) ==
    /\ loc[t].list_response # None
    /\ \/ loc[t].list_response[1].k = "raise"
       \/ loc[t].list_response[1].k = "dict" /\ loc[t].list_response[1].code # Some(0)

\* C22: ragflow_health_check reports status "ok" with connection "working"
\* only when the backend was reached: when the listing it uses as its
\* connectivity test failed, the status it returns is "error".
C22_HealthReflectsBackend ==
    \A t \in Tasks :
        (pc[t] = "done" /\ result[t] # None /\ result[t][1].via = "health" /\ ToolListingFailed(t))
            => result[t][1].status = "error"

\* A health check whose listing raised has returned "ok" and "working".
C22_OkWhenUnreachable ==
    \E t \in Tasks :
        /\ pc[t] = "done"
        /\ result[t] # None
        /\ result[t][1].via = "health"
        /\ loc[t].list_response = Some(Raise)
        /\ result[t][1].status = "ok"
        /\ result[t][1].connection = Some("working")
        /\ result[t][1].datasets_count = Some(0)

-----------------------------------------------------------------------------
(* Termination of retrieval.                                               *)

\* The terminal states of retrieval, by the result it returns.
Terminal(t) ==
    /\ pc[t] = "done"
    /\ result[t] # None
    /\ result[t][1].via \in {"done", "no_chunks", "no_datasets", "backend_error", "exception"}

\* C23: when every backend call is answered, every invocation of retrieval
\* comes to a terminal state (done, no datasets available, or errored) and
\* returns; it stays in that state with that result; and it makes at most
\* 2 + 2 * (number of chunks returned) backend calls.
C23_Terminates ==
    /\ \A t \in Running : (pc[t] # "idle") ~> Terminal(t)
    /\ [](\A t \in Running : pc[t] = "done" => Terminal(t))
    /\ [][\A t \in Running : pc[t] = "done" => (pc'[t] = "done" /\ result'[t] = result[t])]_vars
    /\ [](\A t \in Running : Len(sent[t]) <= 2 + 2 * Len(loc[t].chunks))

\* An invocation has returned after the listing, the POST and both lookups
\* of each of two chunks: 2 + 2 * 2 backend calls.
C23_Witness ==
    \E t \in Running :
        /\ Terminal(t)
        /\ Len(loc[t].chunks) = 2
        /\ Len(sent[t]) = 6

-----------------------------------------------------------------------------
(* The order of the backend calls of one invocation.                       *)

\* The places in the requests of invocation t that hold this kind.
Places(t, kind) == {i \in 1..Len(sent[t]) : sent[t][i].kind = kind}

\* The POST of invocation t answered with code 0 and at least one chunk.
PostGaveChunks(t) ==
    /\ loc[t].post_result # None
    /\ loc[t].post_result[1].k = "dict"
    /\ loc[t].post_result[1].code = Some(0)
    /\ Len(loc[t].chunks) >= 1

\* C24: the backend calls of one invocation are ordered.  A dataset listing
\* is its first call and is answered before the POST is issued; at most
\* one POST is issued; every enrichment lookup is issued after the POST has
\* answered with a successful envelope that holds at least one chunk.
C24_CallsOrdered ==
    /\ [](\A t \in Running :
            /\ Places(t, "list") \subseteq {1}
            /\ Cardinality(Places(t, "retrieval")) <= 1
            /\ Places(t, "retrieval") \subseteq {Cardinality(Places(t, "list")) + 1}
            /\ pc[t] = "listing" => Places(t, "retrieval") = {}
            /\ pc[t] = "posting" => Places(t, "dataset") \cup Places(t, "documents") = {}
            /\ \A i \in Places(t, "dataset") \cup Places(t, "documents") :
                   /\ \E j \in Places(t, "retrieval") : j < i
                   /\ PostGaveChunks(t))
    /\ [][\A t \in Running :
            /\ Issues(t, "retrieval") => pc[t] \in {"idle", "listing"} /\ pc'[t] = "posting"
            /\ (Issues(t, "dataset") \/ Issues(t, "documents")) =>
                   pc[t] \in {"posting", "dataset", "documents"} /\ PostGaveChunks(t)']_vars

\* An invocation has listed, posted and looked up a dataset and its documents.
C24_Witness ==
    \E t \in Running :
        /\ pc[t] = "done"
        /\ Len(sent[t]) >= 4
        /\ sent[t][1].kind = "list"
        /\ sent[t][2].kind = "retrieval"
        /\ sent[t][3].kind = "dataset"
        /\ sent[t][4].kind = "documents"

-----------------------------------------------------------------------------
(* Enrichment asks one thing at a time.                                    *)

\* The invocation waits for an answer of the backend.
Waiting(t) == pc[t] \in {"listing", "posting", "dataset", "documents"}

\* C25: enrichment is sequential within an invocation.  At every moment an
\* invocation has at most one request that is not answered, and it has one
\* exactly while it waits; a step issues at most one request; a lookup is
\* issued in the step that takes the answer of the request before it, for
\* a later chunk than the lookup before it or, as document lookup, for the
\* chunk whose dataset lookup has just answered.
C25_OneAtATime ==
    /\ [](\A t \in Tasks :
            /\ Len(sent[t]) - loc[t].answered \in {0, 1}
            /\ Waiting(t) <=> Len(sent[t]) - loc[t].answered = 1)
    /\ [][\A t \in Tasks :
            /\ Len(sent'[t]) <= Len(sent[t]) + 1
            /\ (Issues(t, "dataset") \/ Issues(t, "documents")) =>
                   /\ Waiting(t)
                   /\ loc'[t].answered = loc[t].answered + 1
                   /\ pc[t] \in {"dataset", "documents"} =>
                          \/ loc[t].i < loc'[t].i
                          \/ loc[t].i = loc'[t].i /\ pc[t] = "dataset" /\ Issues(t, "documents")
                   /\ Issues(t, "documents") =>
                          \/ pc[t] = "dataset" /\ loc[t].i = loc'[t].i
                          \/ ~TruthyOpt(ChunkDatasetId(loc'[t].chunks[loc'[t].i]))
                          \/ CacheHas(dataset_cache, ChunkDatasetId(loc'[t].chunks[loc'[t].i])[1])]_vars

\* An invocation waits for the document lookup of its second chunk after
\* three lookups have answered, while the other invocation waits too.
C25_Witness ==
    \E t, u \in Tasks :
        /\ t # u
        /\ pc[t] = "documents"
        /\ loc[t].i = 2
        /\ loc[t].answered >= 4
        /\ Waiting(u)

-----------------------------------------------------------------------------
(* Lazy initialisation of the server's connector.                          *)

\* The tool call t has made the connector ready and has not returned.
InFlight(t) == pc[t] \notin {"idle", "done"}

\* C26: lazy initialisation is idempotent across concurrent first callers.
\* However the tool calls interleave, the server makes one connector and
\* one session, every tool call runs on that connector, and once they are
\* made neither the connector nor its session is replaced, nor are its
\* caches started anew by a later caller.
C26_OneConnector ==
    /\ [](/\ made.connectors <= 1
          /\ made.sessions <= 1
          /\ \A t \in Tasks : pc[t] # "idle" =>
                 /\ uses[t] = 1
                 /\ made = [connectors |-> 1, sessions |-> 1]
                 /\ session = "open")
    /\ [][made.connectors = 1 =>
              /\ made' = made
              /\ session' = session
              /\ \A t \in Tasks :
                     (pc[t] = "idle" /\ pc'[t] \in {"health", "list_tool"}) =>
                         (dataset_cache' = dataset_cache /\ document_cache' = document_cache)]_vars

\* A second tool call has arrived while the first one, which made the
\* connector and has cached a dataset since, waits for the backend.
C26_Witness ==
    \E t, u \in Tasks :
        /\ t # u
        /\ InFlight(t)
        /\ InFlight(u)
        /\ pc[u] = "health"
        /\ dataset_cache # <<>>
        /\ uses[t] = 1
        /\ uses[u] = 1

-----------------------------------------------------------------------------
(* force_refresh and the lookups of other invocations.                     *)

\* The step takes the answer of the lookup invocation u waits for.
TakesLookup(u) ==
    /\ pc[u] \in {"dataset", "documents"}
    /\ loc'[u].answered = loc[u].answered + 1

\* C27 as claimed: a force_refresh is not undone by a concurrent
\* invocation.  The answer of a lookup that another invocation had asked
\* for before the clear puts nothing into the dataset cache or the
\* document cache after the clear.
C27_NotUndone ==
    [][\A u \in Tasks :
           (TakesLookup(u) /\ loc[u].overtaken) =>
               /\ Entries(dataset_cache') \subseteq Entries(dataset_cache)
               /\ Entries(document_cache') \subseteq Entries(document_cache)]_vars

\* C27 as it holds: the clear of a force_refresh leaves both caches empty
\* when the POST is issued, and it overtakes only lookups that other
\* invocations wait for at that moment.  Such a lookup is not cancelled:
\* when its answer holds the dataset, the dataset is in the dataset cache
\* after the answer, that is after the clear.  An invocation takes at most
\* one such late answer for each clear of another invocation; the lookups
\* it issues from then on are issued after the clear.
C27_LateWrites ==
    /\ [](\A u \in Tasks :
            /\ loc[u].overtaken =>
                   /\ pc[u] \in {"dataset", "documents"}
                   /\ \E t \in Tasks \ {u} : loc[t].cleared
            /\ loc[u].late + (IF loc[u].overtaken THEN 1 ELSE 0)
                   <= Cardinality({t \in Tasks \ {u} : loc[t].cleared}))
    /\ [][\A u \in Tasks :
            /\ (loc'[u].cleared /\ ~loc[u].cleared) =>
                   (session # "none" => (dataset_cache' = <<>> /\ document_cache' = <<>>))
            /\ (TakesLookup(u) /\ loc[u].overtaken /\ pc[u] = "dataset"
                  /\ loc[u].i \notin loc'[u].dataset_failed) =>
                   CacheHas(dataset_cache', ChunkDatasetId(loc[u].chunks[loc[u].i])[1])]_vars

\* An invocation with force_refresh has cleared the caches and waits for
\* its POST, and the dataset cache holds an entry: the other invocation has
\* written it since, from the one lookup it has had answered, which the
\* clear had overtaken.
C27_Witness ==
    \E t, u \in Tasks :
        /\ t # u
        /\ loc[t].cleared
        /\ pc[t] = "posting"
        /\ pc[u] = "documents"
        /\ Len(sent[u]) = 3
        /\ loc[u].late = 1
        /\ dataset_cache # <<>>

-----------------------------------------------------------------------------
(* The scope of the retrieval POST.                                        *)

\* C28: every retrieval POST carries a non-empty dataset_ids list of
\* non-empty strings; when the scope comes from the dataset listing it is
\* the ids of the listed records, and an invocation whose listing yields
\* no usable id does not issue the POST.
C28_ScopeNonEmpty ==
    \A t \in Running :
        pc[t] = "posting" =>
            LET ids == loc[t].payload[1].dataset_ids
            IN  /\ ids # <<>>
                /\ \A i \in 1..Len(ids) : ids[i].t = "str" /\ ids[i].s # <<>>
                /\ HasSent(t, "list") => ids = ListedIds(loc[t].all_datasets[1].items)

\* A POST with an empty dataset_ids list is under way, after a listing
\* whose one record has no id.
C28_EmptyScopePosted ==
    \E t \in Running :
        /\ pc[t] = "posting"
        /\ sent[t] = <<Req("list", None), Req("retrieval", None)>>
        /\ loc[t].all_datasets = Some(JList(<<DatasetRec(None, Some("No id"))>>))
        /\ loc[t].payload[1].dataset_ids = <<>>

-----------------------------------------------------------------------------
(* Failed lookups and the caches.                                          *)

\* The chunks after chunk i that are of the same dataset as chunk i and,
\* when a document is looked up, name a document.
SameDatasetAfter(l, i, documents) ==
    {j \in (i + 1)..Len(l.chunks) :
        /\ l.chunks[j].r = "dict"
        /\ ChunkDatasetId(l.chunks[j]) = ChunkDatasetId(l.chunks[i])
        /\ documents => TruthyOpt(l.chunks[j].document_id)}

\* The next chunk of those, when enrichment is through with it.
NextDone(l, i, documents) ==
    LET js == SameDatasetAfter(l, i, documents)
    IN  IF js = {} THEN {}
        ELSE LET j == CHOOSE j \in js : \A k \in js : j <= k
             IN  IF j <= Len(l.enriched) THEN {j} ELSE {}

\* C29: failed metadata lookups are never cached.  The answer of a
\* single-dataset lookup that failed (no envelope with code 0, or one that
\* holds no record) and the answer of a document listing that is no
\* envelope with code 0 add nothing to the dataset cache or to the document
\* cache and leave no usable entry for the dataset there, so that the next
\* lookup for the same dataset goes to the backend again.
C29_FailuresNotCached ==
    /\ [][\A t \in Running :
            /\ (TakesLookup(t) /\ pc[t] = "dataset" /\ loc[t].i \in loc'[t].dataset_failed) =>
                   /\ Entries(dataset_cache') \subseteq Entries(dataset_cache)
                   /\ Entries(document_cache') \subseteq Entries(document_cache)
                   /\ ~CacheHas(dataset_cache', ChunkDatasetId(loc[t].chunks[loc[t].i])[1])
            /\ \A resp \in DocumentsResponses :
                   (Refused(resp) /\ DocumentsResponse(t, resp)) =>
                       /\ Entries(dataset_cache') \subseteq Entries(dataset_cache)
                       /\ Entries(document_cache') \subseteq Entries(document_cache)
                       /\ LRUGet(document_cache', ChunkDatasetId(loc[t].chunks[loc[t].i])[1], now).ret
                              \in {None, Some(<<>>)}]_vars
    /\ [](\A t \in Running :
            \A i \in loc[t].dataset_failed :
                NextDone(loc[t], i, FALSE) \subseteq loc[t].dataset_lookups)

\* Both lookups of a chunk failed, the document cache was left without an
\* entry, and both were made again for the next chunk, which is of the same
\* dataset.
C29_Witness ==
    \E t \in Running :
        /\ pc[t] = "done"
        /\ 1 \in loc[t].dataset_failed
        /\ 1 \in loc[t].documents_failed
        /\ document_cache = <<>>
        /\ NextDone(loc[t], 1, TRUE) = {2}
        /\ 2 \in loc[t].dataset_lookups
        /\ 2 \in loc[t].documents_lookups

-----------------------------------------------------------------------------
(* A retrieval that finds nothing.                                         *)

\* The POST is answered by an envelope with code 0 that holds no chunk.
ZeroChunks(resp) ==
    /\ resp.k = "dict"
    /\ resp.code = Some(0)
    /\ \/ resp.data = None
       \/ /\ resp.data[1].d = "dict"
          /\ resp.data[1].chunks \in {None, Some(<<>>)}

\* C30: when the retrieval envelope succeeds with zero chunks, the result
\* has chunks = [], no error field, the "no relevant documents" message and
\* the pagination {page: requested page, page_size: requested page_size,
\* total_chunks: 0, total_pages: 0}; the invocation ends there, issues no
\* enrichment lookup and leaves both caches as they are.
C30_ZeroChunks ==
    [][\A t \in Tasks : \A resp \in ConnPostResponses :
           (ZeroChunks(resp) /\ PostResponse(t, resp)) =>
               /\ pc'[t] = "done"
               /\ result'[t] # None
               /\ result'[t][1].chunks = <<>>
               /\ result'[t][1].error = None
               /\ result'[t][1].message = Some("No relevant documents found for your question.")
               /\ result'[t][1].pagination =
                      Some([page |-> call[t].page, page_size |-> call[t].page_size,
                            total_chunks |-> 0, total_pages |-> 0])
               /\ sent'[t] = sent[t]
               /\ ~HasSent(t, "dataset") /\ ~HasSent(t, "documents")
               /\ dataset_cache' = dataset_cache
               /\ document_cache' = document_cache]_vars

\* An invocation has ended on zero chunks while both caches hold what the
\* other invocation has cached.
C30_Witness ==
    \E t \in Tasks :
        /\ pc[t] = "done"
        /\ result[t] # None
        /\ result[t][1].via = "no_chunks"
        /\ loc[t].post_result # None
        /\ loc[t].post_result[1].code = Some(0)
        /\ dataset_cache # <<>>
        /\ document_cache # <<>>

====
